---- MODULE Spec2Model ----
(***************************************************************************)
(* Model of the binary codec of particle_modder.py: MemoryStream, the      *)
(* primitive records, Visualizer, ParticleSystem (heuristic component      *)
(* scanner and offset-based write-back) and ParticleEffect (version        *)
(* detection and migration).                                               *)
(*                                                                         *)
(* A buffer is a sequence of bytes (0..255); a stream position is 0-based  *)
(* as in the source, so byte p of the buffer is data[p + 1].  A u32 or a   *)
(* float32 is held in memory as the integer its four little-endian bytes   *)
(* spell (for a float: its bit pattern); a u64 as the pair <<low, high>>   *)
(* of its two u32 halves.  In the inputs the high byte of every word that   *)
(* is read as a number is at most 127, so that number is below 2^31.       *)
(***************************************************************************)
EXTENDS Integers, Sequences, FiniteSets, TLC

(***************************************************************************)
(* Bounds of the model.                                                    *)
(***************************************************************************)
MaxSystems == 2    \* particle systems in a file
MaxEncodes == 2    \* saves in a session
MaxFill == 2       \* fill patterns of a lone visualizer record
MaxTag == 6        \* visualizer tags tried: 0..MaxTag
MaxRegion == 21    \* bytes in an all-zero component region
MaxChunks == 2     \* chunks in a component region built from chunks
MaxData == 2       \* bytes in the buffer a lone stream starts with
MaxArg == 3        \* largest argument of a call on a lone stream
MaxOps == 2        \* calls made on a lone stream

(***************************************************************************)
(* Program constants.                                                      *)
(***************************************************************************)
CURRENT_PARTICLE_EFFECT_VERSION == 111
\* a faulty variant of the list below: the next version tag accepted too
VersionsWithNext == {111, 110, 109, 112}

VALID_PARTICLE_EFFECT_VERSIONS == {111, 110, 109}
BILLBOARD == 0
LIGHT == 1
MESH == 2
UNKNOWN3 == 3
UNKNOWN4 == 4

(***************************************************************************)
(* Byte helpers: struct.pack / struct.unpack with the "<" formats.         *)
(***************************************************************************)
Zeros(n) == [i \in 1..n |-> 0]

\* struct.pack("<I", v), and "<f" of a float held as its bit pattern
PackU32(v) ==
  << v % 256, (v \div 256) % 256, (v \div 65536) % 256, (v \div 16777216) % 256 >>

\* struct.unpack("<I", b)[0], and "<f"
UnpackU32(b) == b[1] + 256 * b[2] + 65536 * b[3] + 16777216 * b[4]

\* struct.pack("<Q", v) of v = <<low, high>>
PackU64(v) == PackU32(v[1]) \o PackU32(v[2])

\* struct.unpack("<Q", b)[0]
UnpackU64(b) == << UnpackU32(SubSeq(b, 1, 4)), UnpackU32(SubSeq(b, 5, 8)) >>

RECURSIVE PackWords(_)
\* struct.pack("<ff...f", *vs): the words of vs, each little-endian
PackWords(vs) ==
  IF vs = << >> THEN << >> ELSE PackU32(Head(vs)) \o PackWords(Tail(vs))

\* the n u32 words spelled by the 4n bytes b
UnpackWords(b, n) == [i \in 1..n |-> UnpackU32(SubSeq(b, 4 * i - 3, 4 * i))]

(***************************************************************************)
(* MemoryStream.  A stream is [data, location].  Consecutive writes are    *)
(* modelled as one write of the bytes put one after the other.             *)
(***************************************************************************)
MemoryStream(bytes) == [data |-> bytes, location |-> 0]

tell(s) == s.location

\* a faulty variant of the seek below: the buffer is not grown
SeekWithoutGrowth(s, location) == [data |-> s.data, location |-> location]

seek(s, location) ==
  [data |-> IF location > Len(s.data)
            THEN s.data \o Zeros(location - Len(s.data))
            ELSE s.data,
   location |-> location]

\* a faulty variant of the advance below: the buffer is not grown
AdvanceWithoutGrowth(s, offset) ==
  [data |-> s.data,
   location |-> IF s.location + offset < 0 THEN 0 ELSE s.location + offset]

advance(s, offset) ==
  LET loc == IF s.location + offset < 0 THEN 0 ELSE s.location + offset
  IN  [data |-> IF loc > Len(s.data)
                THEN s.data \o Zeros(loc - Len(s.data))
                ELSE s.data,
       location |-> loc]

\* the index a slice bound i stands for in a sequence of n items: counted
\* from the end when negative, kept within 0..n
SliceIndex(i, n) ==
  IF i < 0 THEN (IF i + n < 0 THEN 0 ELSE i + n) ELSE (IF i > n THEN n ELSE i)

\* d[from:to]
Slice(d, from, to) ==
  IF SliceIndex(from, Len(d)) >= SliceIndex(to, Len(d)) THEN << >>
  ELSE SubSeq(d, SliceIndex(from, Len(d)) + 1, SliceIndex(to, Len(d)))

\* d[from:to] = bytes
SliceAssign(d, from, to, bytes) ==
  SubSeq(d, 1, SliceIndex(from, Len(d))) \o bytes
    \o SubSeq(d, (IF SliceIndex(to, Len(d)) < SliceIndex(from, Len(d))
                  THEN SliceIndex(from, Len(d)) ELSE SliceIndex(to, Len(d))) + 1,
              Len(d))

\* a read from a negative position or of a negative length, the length no
\* longer the default: the test and the slice as Python evaluates them
ReadSlice(s, length) ==
  IF s.location + length > Len(s.data)
  THEN [ok |-> FALSE, val |-> << >>, s |-> s]
  ELSE [ok |-> TRUE,
        val |-> Slice(s.data, s.location, s.location + length),
        s |-> [s EXCEPT !.location = s.location + length]]

\* a faulty variant of the read below: a read that ends at the end of the
\* buffer raises too
ReadBeforeEnd(s, length) ==
  IF s.location + length >= Len(s.data)
  THEN [ok |-> FALSE, val |-> << >>, s |-> s]
  ELSE [ok |-> TRUE,
        val |-> SubSeq(s.data, s.location + 1, s.location + length),
        s |-> [s EXCEPT !.location = s.location + length]]

\* read(length): [ok, val, s]; ok = FALSE models the raised exception, which
\* leaves the stream as it was.  The default length -1 stands for the rest
\* of the buffer.
read(s, length) ==
  IF s.location < 0 \/ length < 0
  THEN ReadSlice(s, IF length = -1 THEN Len(s.data) - s.location ELSE length)
  ELSE IF s.location + length > Len(s.data)
  THEN [ok |-> FALSE, val |-> << >>, s |-> s]
  ELSE [ok |-> TRUE,
        val |-> SubSeq(s.data, s.location + 1, s.location + length),
        s |-> [s EXCEPT !.location = s.location + length]]

\* a write at a negative position: the buffer grown as the test says, then
\* the slice assigned as Python assigns it
WriteSlice(s, bytes) ==
  [data |-> SliceAssign(IF s.location + Len(bytes) > Len(s.data)
                        THEN s.data \o Zeros(s.location + Len(bytes) - Len(s.data))
                        ELSE s.data,
                        s.location, s.location + Len(bytes), bytes),
   location |-> s.location + Len(bytes)]

write(s, bytes) ==
  IF s.location < 0 THEN WriteSlice(s, bytes)
  ELSE
  LET length == Len(bytes)
      d == IF s.location + length > Len(s.data)
           THEN s.data \o Zeros(s.location + length - Len(s.data))
           ELSE s.data
  IN  [data |-> SubSeq(d, 1, s.location) \o bytes
                  \o SubSeq(d, s.location + length + 1, Len(d)),
       location |-> s.location + length]

\* the u32 a read of 4 bytes spells
U32Of(r) == [ok |-> r.ok, val |-> IF r.ok THEN UnpackU32(r.val) ELSE 0, s |-> r.s]

uint32_read(s) == U32Of(read(s, 4))

RECURSIVE FitCount(_, _, _)
\* how many of the consecutive reads of the sizes in sizes succeed when avail
\* bytes are left; done counts those already made
FitCount(sizes, avail, done) ==
  IF sizes = << >> \/ Head(sizes) > avail THEN done
  ELSE FitCount(Tail(sizes), avail - Head(sizes), done + 1)

RECURSIVE SumSeq(_)
SumSeq(q) == IF q = << >> THEN 0 ELSE Head(q) + SumSeq(Tail(q))

\* the position of the i-th of consecutive reads of the given sizes
FieldStart(s, sizes, i) == s.location + SumSeq(SubSeq(sizes, 1, i - 1))

\* the first k of those reads made
FieldsRead(s, sizes, k) ==
  [ok |-> k = Len(sizes),
   val |-> [i \in 1..k |-> SubSeq(s.data, FieldStart(s, sizes, i) + 1,
                                  FieldStart(s, sizes, i) + sizes[i])],
   s |-> [s EXCEPT !.location = FieldStart(s, sizes, k + 1)]]

\* consecutive stream.read calls of the given sizes: [ok, val, s], val the
\* chunks read; the first read that does not fit raises and the position
\* stays after the reads that succeeded
ReadFields(s, sizes) ==
  FieldsRead(s, sizes, FitCount(sizes, Len(s.data) - s.location, 0))

\* the u32 that chunks of 4 bytes spell
WordsOf(r) ==
  [ok |-> r.ok, val |-> [i \in 1..Len(r.val) |-> UnpackU32(r.val[i])], s |-> r.s]

\* n consecutive uint32_read / float32_read calls: [ok, val, s]
ReadWords(s, n) == WordsOf(ReadFields(s, [i \in 1..n |-> 4]))

(***************************************************************************)
(* Visualizer.  Fields a variant does not have stay at their defaults.     *)
(***************************************************************************)
NoVisualizer ==
  [visualizer_type |-> -1, unk1 |-> 0, unk2 |-> 0, material_id |-> <<0, 0>>,
   unit_id |-> <<0, 0>>, mesh_id |-> <<0, 0>>, data |-> << >>]

\* a faulty variant of the reads below: the mesh payload read with the
\* length of the UNKNOWN3 payload
VisualizerReadsMeshLong(visualizer_type) ==
  CASE visualizer_type = BILLBOARD -> <<4, 4, 8, 240>>
    [] visualizer_type = LIGHT -> <<256>>
    [] visualizer_type = MESH -> <<8, 8, 8, 232>>
    [] visualizer_type = UNKNOWN3 -> <<4, 4, 8, 232>>
    [] visualizer_type = UNKNOWN4 -> <<8, 248>>
    [] OTHER -> << >>

\* the sizes of the reads that follow the tag, per visualizer type
VisualizerReads(visualizer_type) ==
  CASE visualizer_type = BILLBOARD -> <<4, 4, 8, 240>>
    [] visualizer_type = LIGHT -> <<256>>
    [] visualizer_type = MESH -> <<8, 8, 8, 224>>
    [] visualizer_type = UNKNOWN3 -> <<4, 4, 8, 232>>
    [] visualizer_type = UNKNOWN4 -> <<8, 248>>
    [] OTHER -> << >>

\* the visualizer of type type whose fields are the chunks f
VisualizerFields(type, f) ==
  CASE type = BILLBOARD ->
         [NoVisualizer EXCEPT !.visualizer_type = type,
            !.unk1 = UnpackU32(f[1]), !.unk2 = UnpackU32(f[2]),
            !.material_id = UnpackU64(f[3]), !.data = f[4]]
    [] type = LIGHT -> [NoVisualizer EXCEPT !.visualizer_type = type, !.data = f[1]]
    [] type = MESH ->
         [NoVisualizer EXCEPT !.visualizer_type = type,
            !.unit_id = UnpackU64(f[1]), !.mesh_id = UnpackU64(f[2]),
            !.material_id = UnpackU64(f[3]), !.data = f[4]]
    [] type = UNKNOWN3 ->
         [NoVisualizer EXCEPT !.visualizer_type = type,
            !.unk1 = UnpackU32(f[1]), !.unk2 = UnpackU32(f[2]),
            !.material_id = UnpackU64(f[3]), !.data = f[4]]
    [] type = UNKNOWN4 ->
         [NoVisualizer EXCEPT !.visualizer_type = type,
            !.material_id = UnpackU64(f[1]), !.data = f[2]]
    [] OTHER -> [NoVisualizer EXCEPT !.visualizer_type = type]

\* the reads after the tag: r is what they gave
VisualizerOf(type, r) ==
  [ok |-> r.ok, s |-> r.s,
   val |-> IF r.ok THEN VisualizerFields(type, r.val)
           ELSE [NoVisualizer EXCEPT !.visualizer_type = type]]

\* the tag read: t is what uint32_read gave
VisualizerTagged(t) ==
  IF ~t.ok THEN [ok |-> FALSE, val |-> NoVisualizer, s |-> t.s]
  ELSE VisualizerOf(t.val, ReadFields(t.s, VisualizerReads(t.val)))

\* Visualizer.from_memory_stream: [ok, val, s]
Visualizer_from_memory_stream(s) == VisualizerTagged(uint32_read(s))

\* the bytes Visualizer.write_to_memory_stream packs (none for other types)
VisualizerBytes(v) ==
  CASE v.visualizer_type = BILLBOARD ->
         PackU32(v.visualizer_type) \o PackU32(v.unk1) \o PackU32(v.unk2)
           \o PackU64(v.material_id) \o v.data
    [] v.visualizer_type = LIGHT -> PackU32(v.visualizer_type) \o v.data
    [] v.visualizer_type = MESH ->
         PackU32(v.visualizer_type) \o PackU64(v.unit_id) \o PackU64(v.mesh_id)
           \o PackU64(v.material_id) \o v.data
    [] v.visualizer_type = UNKNOWN3 ->
         PackU32(v.visualizer_type) \o PackU32(v.unk1) \o PackU32(v.unk2)
           \o PackU64(v.material_id) \o v.data
    [] v.visualizer_type = UNKNOWN4 ->
         PackU32(v.visualizer_type) \o PackU64(v.material_id) \o v.data
    [] OTHER -> << >>

\* Visualizer.write_to_memory_stream
Visualizer_write_to_memory_stream(v, s) == write(s, VisualizerBytes(v))

(***************************************************************************)
(* Graph and ColorGraph: 10 samples, x then y.                             *)
(***************************************************************************)
NoGraph == [x |-> << >>, y |-> << >>]

\* the graph that 20 floats spell: x, then y
GraphOf(r) ==
  [ok |-> r.ok, s |-> r.s,
   val |-> IF r.ok THEN [x |-> SubSeq(r.val, 1, 10), y |-> SubSeq(r.val, 11, 20)]
           ELSE NoGraph]

\* Graph.from_memory_stream: [ok, val, s]
Graph_from_memory_stream(s) == GraphOf(ReadWords(s, 20))

\* Graph.write_to_memory_stream: x and y written one after the other
Graph_write_to_memory_stream(g, s) == write(s, PackWords(g.x) \o PackWords(g.y))

\* the color graph that 40 floats spell: x, then the 10 RGB triples
ColorGraphOf(r) ==
  [ok |-> r.ok, s |-> r.s,
   val |-> IF r.ok
           THEN [x |-> SubSeq(r.val, 1, 10),
                 y |-> [i \in 1..10 |-> SubSeq(r.val, 8 + 3 * i, 10 + 3 * i)]]
           ELSE NoGraph]

\* ColorGraph.from_memory_stream: [ok, val, s]
ColorGraph_from_memory_stream(s) == ColorGraphOf(ReadWords(s, 40))

RECURSIVE PackColors(_)
\* the RGB triples packed one after the other
PackColors(colors) ==
  IF colors = << >> THEN << >>
  ELSE PackWords(Head(colors)) \o PackColors(Tail(colors))

\* ColorGraph.write_to_memory_stream: x and the triples written one after
\* the other
ColorGraph_write_to_memory_stream(g, s) ==
  write(s, PackWords(g.x) \o PackColors(g.y))

\* a graph read twice into the same object: the second read overwrites
SecondRead(a) == IF a.ok THEN Graph_from_memory_stream(a.s) ELSE a

\* a faulty variant of the double read below: the second read made, the
\* samples of the first kept
FirstReadOf(a, b) == IF a.ok /\ b.ok THEN [b EXCEPT !.val = a.val] ELSE b

GraphFirst_from_memory_stream(s) ==
  FirstReadOf(Graph_from_memory_stream(s), SecondRead(Graph_from_memory_stream(s)))

GraphTwice_from_memory_stream(s) == SecondRead(Graph_from_memory_stream(s))

\* a faulty variant of the double write below: the graph written once
GraphOnce_write_to_memory_stream(g, s) == Graph_write_to_memory_stream(g, s)

\* a graph written twice, back to back
GraphTwice_write_to_memory_stream(g, s) ==
  Graph_write_to_memory_stream(g, Graph_write_to_memory_stream(g, s))

(***************************************************************************)
(* BurstEmitterGraph and Emitter.                                          *)
(***************************************************************************)
BURST == 12
RATE == 11

NoBurstGraph == [times |-> << >>, num_particles |-> << >>]

\* the burst graph that 30 words spell: ten times (time, count, count)
BurstGraphOf(r) ==
  [ok |-> r.ok, s |-> r.s,
   val |-> IF r.ok
           THEN [times |-> [i \in 1..10 |-> r.val[3 * i - 2]],
                 num_particles |->
                   [i \in 1..10 |-> <<r.val[3 * i - 1], r.val[3 * i]>>]]
           ELSE NoBurstGraph]

\* a faulty variant of the reads below: eleven samples read, not ten
BurstEmitterGraphEleven_from_memory_stream(s) ==
  BurstGraphOf(ReadWords(s, 33))

\* BurstEmitterGraph.from_memory_stream: [ok, val, s]
BurstEmitterGraph_from_memory_stream(s) == BurstGraphOf(ReadWords(s, 30))

\* BurstEmitterGraph.write_to_memory_stream: the ten samples written one
\* after the other
BurstEmitterGraph_write_to_memory_stream(g, s) ==
  write(s, PackColors([i \in 1..10 |->
                         <<g.times[i], g.num_particles[i][1], g.num_particles[i][2]>>]))

\* Emitter.__init__ sets no field; the fields a variant does not set are
\* kept here at defaults
NoEmitter ==
  [emitter_type |-> -1, burst_graph |-> NoBurstGraph, initial_rate_min |-> 0,
   initial_rate_max |-> 0, rate_graph |-> NoGraph]

\* a burst emitter: b is what the read of its graph gave
EmitterBurst(e, b) ==
  [ok |-> b.ok, s |-> b.s, val |-> [e EXCEPT !.burst_graph = b.val]]

\* a rate emitter whose two rates are read: g is what the read of its graph
\* gave
EmitterRateGraph(e, g) ==
  [ok |-> g.ok, s |-> g.s, val |-> [e EXCEPT !.rate_graph = g.val]]

\* a rate emitter: r is what the reads of the two rates gave
EmitterRate(e, r) ==
  IF ~r.ok
  THEN [ok |-> FALSE, s |-> r.s,
        val |-> [e EXCEPT !.initial_rate_min = IF Len(r.val) >= 1 THEN r.val[1] ELSE @]]
  ELSE EmitterRateGraph([e EXCEPT !.initial_rate_min = r.val[1],
                                  !.initial_rate_max = r.val[2]],
                        Graph_from_memory_stream(r.s))

\* the tag read: t is what uint32_read gave
EmitterTagged(t) ==
  IF ~t.ok THEN [ok |-> FALSE, val |-> NoEmitter, s |-> t.s]
  ELSE IF t.val = BURST
    THEN EmitterBurst([NoEmitter EXCEPT !.emitter_type = t.val],
                      BurstEmitterGraph_from_memory_stream(t.s))
  ELSE IF t.val = RATE
    THEN EmitterRate([NoEmitter EXCEPT !.emitter_type = t.val], ReadWords(t.s, 2))
  ELSE [ok |-> TRUE, val |-> [NoEmitter EXCEPT !.emitter_type = t.val], s |-> t.s]

\* Emitter.from_memory_stream: [ok, val, s]
Emitter_from_memory_stream(s) == EmitterTagged(uint32_read(s))

\* Emitter.write_to_memory_stream: the tag skipped, the payload written
Emitter_write_to_memory_stream(e, s) ==
  IF e.emitter_type = BURST
  THEN BurstEmitterGraph_write_to_memory_stream(e.burst_graph, advance(s, 4))
  ELSE IF e.emitter_type = RATE
  THEN Graph_write_to_memory_stream(e.rate_graph,
         write(advance(s, 4), PackWords(<<e.initial_rate_min, e.initial_rate_max>>)))
  ELSE advance(s, 4)

(***************************************************************************)
(* EmitterRotation and EmitterPosition.  The rotation is kept as the 3x3   *)
(* matrix (three rows of three floats) that scipy's Rotation hands back.   *)
(***************************************************************************)
\* the float32 values 1.0 and 2.0
FloatOne == UnpackU32(<<0, 0, 128, 63>>)
FloatTwo == UnpackU32(<<0, 0, 0, 64>>)

IdentityMatrix ==
  << <<FloatOne, 0, 0>>, <<0, FloatOne, 0>>, <<0, 0, FloatOne>> >>

ScaledIdentityMatrix ==
  << <<FloatTwo, 0, 0>>, <<0, FloatTwo, 0>>, <<0, 0, FloatTwo>> >>

\* Rotation.from_matrix(m).as_matrix(): the rotation nearest to m.  A proper
\* rotation matrix comes back as it is and a positive multiple of the
\* identity comes back as the identity; the inputs hold no other matrix.
RotationFromMatrix(m) == IF m = ScaledIdentityMatrix THEN IdentityMatrix ELSE m

\* EmitterRotation.fromBytes: rows at bytes 0..11, 16..27 and 32..43
EmitterRotation_fromBytes(data) ==
  RotationFromMatrix(<< UnpackWords(SubSeq(data, 1, 12), 3),
                        UnpackWords(SubSeq(data, 17, 28), 3),
                        UnpackWords(SubSeq(data, 33, 44), 3) >>)

\* EmitterRotation.to_bytes: each row followed by four zero bytes
EmitterRotation_to_bytes(rotation) ==
  PackWords(rotation[1]) \o Zeros(4) \o PackWords(rotation[2]) \o Zeros(4)
    \o PackWords(rotation[3]) \o Zeros(4)

\* EmitterPosition.fromBytes
EmitterPosition_fromBytes(data) == UnpackWords(SubSeq(data, 1, 12), 3)

\* EmitterPosition.to_bytes
EmitterPosition_to_bytes(position) == PackWords(position)

(***************************************************************************)
(* ParticleSystem.                                                         *)
(***************************************************************************)
\* ParticleSystem.__init__
NewParticleSystem ==
  [scale_graphs |-> << >>, opacity_graphs |-> << >>, color_graphs |-> << >>,
   color_graph_offsets |-> << >>, other_graph_offsets |-> << >>,
   other_graphs |-> << >>, emitter_offsets |-> << >>, emitters |-> << >>,
   visualizer |-> NoVisualizer, offset |-> 0, max_num_particles |-> 0,
   num_components |-> 0, unk1 |-> << >>, non_rendering |-> 0, unk2 |-> << >>,
   rotation |-> << >>, position |-> << >>, unk3 |-> << >>,
   component_list_offset |-> 0, unk4 |-> << >>, emitter_offset |-> 0,
   unk5 |-> << >>, visualizer_offset |-> 0, size |-> 0]

\* the sizes of the header's reads, in order
HeaderReads == <<4, 4, 68, 4, 40, 48, 12, 52, 4, 4, 4, 8, 4, 4>>

\* the header fields of a system read at position offset from the chunks f
HeaderFields(offset, f) ==
  [NewParticleSystem EXCEPT
     !.offset = offset,
     !.max_num_particles = UnpackU32(f[1]),
     !.num_components = UnpackU32(f[2]),
     !.unk1 = f[3],
     !.non_rendering = UnpackU32(f[4]),
     !.unk2 = f[5],
     !.rotation = EmitterRotation_fromBytes(f[6]),
     !.position = EmitterPosition_fromBytes(f[7]),
     !.unk3 = f[8],
     !.component_list_offset = UnpackU32(f[9]),
     !.unk4 = f[10],
     !.emitter_offset = UnpackU32(f[11]) + 20,
     !.unk5 = f[12],
     !.visualizer_offset = UnpackU32(f[13]),
     !.size = UnpackU32(f[14])]

\* a faulty variant of is_rendering: the flag ignored
AlwaysRendering(ps) == TRUE

is_rendering(ps) == ps.non_rendering = 0

\* The component scan.  A scan state is [ps, s, st]: the system, the stream
\* and where the loop stands: "scan" (the loop goes on), "exit" (the loop
\* has ended) or "raised" (a read went past the end of the buffer).
Continue(ps, s) == [ps |-> ps, s |-> s, st |-> "scan"]
Break(ps, s) == [ps |-> ps, s |-> s, st |-> "exit"]
Raised(ps, s) == [ps |-> ps, s |-> s, st |-> "raised"]

\* the free-standing graph read twice: g is what the reads gave
FreeGraphRead(ps, g) ==
  IF ~g.ok THEN Raised(ps, g.s)
  ELSE Continue([ps EXCEPT !.other_graphs = Append(@, g.val)], advance(g.s, 8))

\* the offset recorded at the position of s, then the graph read twice
FreeGraphAt(ps, s) ==
  FreeGraphRead([ps EXCEPT !.other_graph_offsets = Append(@, tell(s) - ps.offset)],
                GraphTwice_from_memory_stream(s))

\* a faulty variant of the step below: the word after the window not
\* skipped
FreeGraphAtWindowEnd(ps, s) == FreeGraphAt(ps, s)

\* a free-standing graph, the lookahead window [0x04, >= 0x20, *, *] read
FreeGraph(ps, s) == FreeGraphAt(ps, advance(s, 4))

\* a faulty variant of the step below: the 16 trailing bytes not skipped
BundleColorNoTrail(ps, col) ==
  IF ~col.ok THEN Raised(ps, col.s)
  ELSE Continue([ps EXCEPT !.color_graphs = Append(@, col.val)], col.s)

\* the color graph of a bundle read
BundleColor(ps, col) ==
  IF ~col.ok THEN Raised(ps, col.s)
  ELSE Continue([ps EXCEPT !.color_graphs = Append(@, col.val)],
                advance(col.s, 16))

\* the opacity graph of a bundle read twice
BundleOpacity(ps, op) ==
  IF ~op.ok THEN Raised(ps, op.s)
  ELSE BundleColor([ps EXCEPT !.opacity_graphs = Append(@, op.val)],
                   ColorGraph_from_memory_stream(op.s))

\* a faulty variant of the step below: an absent scale graph is not
\* appended
BundleScaleDropsAbsent(ps, sc) ==
  IF ~sc.ok THEN Raised(ps, sc.s)
  ELSE BundleOpacity(IF sc.val = NoGraph THEN ps
                     ELSE [ps EXCEPT !.scale_graphs = Append(@, sc.val)],
                     GraphTwice_from_memory_stream(sc.s))

\* the scale graph of a bundle read twice, or None appended
BundleScale(ps, sc) ==
  IF ~sc.ok THEN Raised(ps, sc.s)
  ELSE BundleOpacity([ps EXCEPT !.scale_graphs = Append(@, sc.val)],
                     GraphTwice_from_memory_stream(sc.s))

\* a color-graph bundle read from the position of s, with or without scale
Bundle(ps, s, hasScale) ==
  BundleScale([ps EXCEPT !.color_graph_offsets = Append(@, tell(s) - ps.offset)],
              IF hasScale THEN GraphTwice_from_memory_stream(s)
              ELSE [ok |-> TRUE, val |-> NoGraph, s |-> s])

\* the lookahead window w classified
ClassifyWindow(ps, w) ==
  IF ~w.ok THEN Raised(ps, w.s)
  ELSE IF w.val[1] = 4 /\ w.val[2] >= 32 THEN FreeGraph(ps, w.s)
  ELSE IF w.val[1] = 5 /\ w.val[2] >= 32 THEN Bundle(ps, advance(w.s, -4), TRUE)
  ELSE IF w.val[2] = 5 /\ w.val[3] >= 32 THEN Bundle(ps, w.s, TRUE)
  ELSE IF w.val[1] = 15 /\ w.val[2] >= 32 THEN Bundle(ps, advance(w.s, -4), FALSE)
  ELSE IF w.val[1] = 11 THEN Continue(ps, advance(w.s, 12))
  ELSE Continue(ps, w.s)

\* the lookahead: the room for it tested, then four u32 read and classified
Classify(ps, s) ==
  IF tell(s) + 16 > ps.offset + ps.size THEN Break(ps, s)
  ELSE ClassifyWindow(ps, ReadWords(s, 4))

\* a faulty variant of the subtype check below: on a subtype below 0x20 the
\* cursor goes back to the tag
ScanSubtypeBackToTag(ps, u) ==
  IF ~u.ok THEN Raised(ps, u.s)
  ELSE IF u.val < 32 THEN Continue(ps, advance(u.s, -8))
  ELSE Classify(ps, advance(u.s, -8))

\* a faulty variant of the subtype check below: on a subtype below 0x20 the
\* cursor stays after the subtype
ScanSubtypeNoRewind(ps, u) ==
  IF ~u.ok THEN Raised(ps, u.s)
  ELSE IF u.val < 32 THEN Continue(ps, u.s)
  ELSE Classify(ps, advance(u.s, -8))

\* a tag 0x04, 0x05 or 0x0F read: u is what the read of the subtype gave
ScanSubtype(ps, u) ==
  IF ~u.ok THEN Raised(ps, u.s)
  ELSE IF u.val < 32 THEN Continue(ps, advance(u.s, -4))
  ELSE Classify(ps, advance(u.s, -8))

\* a faulty variant of the body below: the 284 bytes after a tag 0x11
\* skipped wherever the record ends
ScanTagSkipsAlways(ps, t) ==
  IF ~t.ok THEN Raised(ps, t.s)
  ELSE IF t.val \in {5, 4, 15} THEN ScanSubtype(ps, uint32_read(t.s))
  ELSE IF t.val = 0 THEN Continue(ps, t.s)
  ELSE IF t.val = 17 THEN Classify(ps, advance(t.s, 284))
  ELSE IF t.val = 11 THEN Continue(ps, advance(t.s, 24))
  ELSE Continue(ps, t.s)

\* the body of the loop: t is what the read of the component type gave
ScanTag(ps, t) ==
  IF ~t.ok THEN Raised(ps, t.s)
  ELSE IF t.val \in {5, 4, 15} THEN ScanSubtype(ps, uint32_read(t.s))
  ELSE IF t.val = 0 THEN Continue(ps, t.s)
  ELSE IF t.val = 17
    THEN Classify(ps, IF tell(t.s) + 284 < ps.offset + ps.size
                      THEN advance(t.s, 284) ELSE t.s)
  ELSE IF t.val = 11 THEN Continue(ps, advance(t.s, 24))
  ELSE Continue(ps, t.s)

\* a faulty variant of the pass below: the loop's test left out
ScanStepUnguarded(ps, s) == ScanTag(ps, uint32_read(s))

\* one pass through the while loop: its test, then its body
ScanStep(ps, s) ==
  IF ~(tell(s) < ps.offset + ps.size) THEN Break(ps, s)
  ELSE ScanTag(ps, uint32_read(s))

RECURSIVE ScanLoop(_)
\* the while loop, run until it ends or raises
ScanLoop(c) == IF c.st = "scan" THEN ScanLoop(ScanStep(c.ps, c.s)) ELSE c

\* a faulty variant of the end below: the seek to the end of the record
\* left out
SystemScannedInPlace(c) ==
  IF c.st = "raised" THEN [ok |-> FALSE, val |-> c.ps, s |-> c.s]
  ELSE [ok |-> TRUE, val |-> c.ps, s |-> c.s]

\* the loop over: c is the scan state it ended in
SystemScanned(c) ==
  IF c.st = "raised" THEN [ok |-> FALSE, val |-> c.ps, s |-> c.s]
  ELSE [ok |-> TRUE, val |-> c.ps, s |-> seek(c.s, c.ps.offset + c.ps.size)]

\* the scan state in which the loop is entered: the visualizer v kept
ScanStart(ps, v) == Continue([ps EXCEPT !.visualizer = v.val], v.s)

\* the visualizer read: v is what Visualizer.from_memory_stream gave
SystemVisualizer(ps, v) ==
  IF ~v.ok THEN [ok |-> FALSE, val |-> ps, s |-> v.s]
  ELSE SystemScanned(ScanLoop(ScanStart(ps, v)))

\* the header read into ps: the two early returns, or the visualizer and
\* the components
SystemBody(ps, s) ==
  IF ~is_rendering(ps) \/ ps.visualizer_offset = ps.size
  THEN [ok |-> TRUE, val |-> ps, s |-> seek(s, ps.offset + ps.size)]
  ELSE SystemVisualizer(ps,
         Visualizer_from_memory_stream(seek(s, ps.offset + ps.visualizer_offset)))

\* h is what the reads of the header gave, made at position offset
SystemHeader(offset, h) ==
  IF ~h.ok THEN [ok |-> FALSE, val |-> NewParticleSystem, s |-> h.s]
  ELSE SystemBody(HeaderFields(offset, h.val), h.s)

\* ParticleSystem.from_memory_stream on a new ParticleSystem: [ok, val, s]
ParticleSystem_from_memory_stream(s) ==
  SystemHeader(tell(s), ReadFields(s, HeaderReads))

\* the 260 bytes ParticleSystem.write_to_memory_stream writes first
HeaderBytes(ps) ==
  PackU32(ps.max_num_particles) \o PackU32(ps.num_components) \o ps.unk1
    \o PackU32(ps.non_rendering) \o ps.unk2
    \o EmitterRotation_to_bytes(ps.rotation)
    \o EmitterPosition_to_bytes(ps.position) \o ps.unk3
    \o PackU32(ps.component_list_offset) \o ps.unk4
    \o PackU32(ps.emitter_offset - 20) \o ps.unk5
    \o PackU32(ps.visualizer_offset) \o PackU32(ps.size)

\* the scale graph written twice unless it is None
WriteScale(g, s) ==
  IF g # NoGraph THEN GraphTwice_write_to_memory_stream(g, s) ELSE s

\* a faulty variant of the position below: the record's start not added
BundlePositionInRecord(ps, i) == ps.color_graph_offsets[i]

\* where bundle i is written: its recorded offset from the record's start
BundlePosition(ps, i) == ps.color_graph_offsets[i] + ps.offset

\* where free-standing graph i is written
OtherGraphPosition(ps, i) == ps.other_graph_offsets[i] + ps.offset

RECURSIVE WriteBundles(_, _, _)
\* the loop over color_graph_offsets, from bundle i on
WriteBundles(ps, i, s) ==
  IF i > Len(ps.color_graph_offsets) THEN s
  ELSE WriteBundles(ps, i + 1,
         ColorGraph_write_to_memory_stream(ps.color_graphs[i],
           GraphTwice_write_to_memory_stream(ps.opacity_graphs[i],
             WriteScale(ps.scale_graphs[i], seek(s, BundlePosition(ps, i))))))

RECURSIVE WriteOtherGraphs(_, _, _)
\* the loop over other_graph_offsets, from graph i on
WriteOtherGraphs(ps, i, s) ==
  IF i > Len(ps.other_graph_offsets) THEN s
  ELSE WriteOtherGraphs(ps, i + 1,
         GraphTwice_write_to_memory_stream(ps.other_graphs[i],
           seek(s, OtherGraphPosition(ps, i))))

\* what ParticleSystem.write_to_memory_stream does after the header
\* (emitter_offsets is always empty: decode never fills it)
SystemAfterHeader(ps, s) ==
  IF ps.non_rendering # 0 \/ ps.visualizer_offset = ps.size
  THEN seek(s, ps.offset + ps.size)
  ELSE WriteOtherGraphs(ps, 1, WriteBundles(ps, 1,
         Visualizer_write_to_memory_stream(ps.visualizer,
           seek(s, ps.offset + ps.visualizer_offset))))

\* ParticleSystem.write_to_memory_stream
ParticleSystem_write_to_memory_stream(ps, s) ==
  SystemAfterHeader(ps, write(s, HeaderBytes(ps)))

(***************************************************************************)
(* ParticleEffect.                                                         *)
(***************************************************************************)
\* ParticleEffect.__init__
NewParticleEffect ==
  [variables |-> << >>, particle_systems |-> << >>, min_lifetime |-> 0,
   max_lifetime |-> 0, num_variables |-> 0, num_particle_systems |-> 0,
   version |-> 0]

\* ParticleEffectVariable.__init__ with its name hash set
NewVariable(name_hash) == [name_hash |-> name_hash, x |-> 0, y |-> 0, z |-> 0]

\* a faulty variant of the pairing below: the floats taken as all x, then
\* all y, then all z
VariablesWithValuesByAxis(variables, fs) ==
  [i \in 1..Len(variables) |->
     [name_hash |-> variables[i].name_hash,
      x |-> IF i <= Len(fs) THEN fs[i] ELSE 0,
      y |-> IF Len(variables) + i <= Len(fs) THEN fs[Len(variables) + i] ELSE 0,
      z |-> IF 2 * Len(variables) + i <= Len(fs)
            THEN fs[2 * Len(variables) + i] ELSE 0]]

\* the variables after the loop over their values has read the floats fs
\* (all of them, or those read before a read raised)
VariablesWithValues(variables, fs) ==
  [i \in 1..Len(variables) |->
     [name_hash |-> variables[i].name_hash,
      x |-> IF 3 * i - 2 <= Len(fs) THEN fs[3 * i - 2] ELSE 0,
      y |-> IF 3 * i - 1 <= Len(fs) THEN fs[3 * i - 1] ELSE 0,
      z |-> IF 3 * i <= Len(fs) THEN fs[3 * i] ELSE 0]]

\* what a call returns: the call's outcome ("returned" or "raised"), the
\* effect object and the stream as the call leaves them
Outcome(result, e, s) == [result |-> result, effect |-> e, s |-> s]

RECURSIVE ReadSystems(_, _, _)
RECURSIVE SystemRead(_, _, _)
\* a system read: r is what ParticleSystem.from_memory_stream gave; it is
\* appended and the loop goes on, or the exception leaves the loop
SystemRead(e, r, n) ==
  IF ~r.ok THEN Outcome("raised", e, r.s)
  ELSE ReadSystems([e EXCEPT !.particle_systems = Append(@, r.val)], r.s, n - 1)

\* the loop over the particle systems, n of them left to read
ReadSystems(e, s, n) ==
  IF n = 0 THEN Outcome("returned", e, s)
  ELSE SystemRead(e, ParticleSystem_from_memory_stream(s), n)

\* the values read: f holds the floats read before any read raised
EffectValues(e, f) ==
  IF ~f.ok
  THEN Outcome("raised", [e EXCEPT !.variables = VariablesWithValues(@, f.val)], f.s)
  ELSE ReadSystems([e EXCEPT !.variables = VariablesWithValues(@, f.val)], f.s,
                   e.num_particle_systems)

\* the name hashes read: h holds those read before any read raised
EffectHashes(e, h) ==
  IF ~h.ok
  THEN Outcome("raised",
         [e EXCEPT !.variables = [i \in 1..Len(h.val) |-> NewVariable(h.val[i])]],
         h.s)
  ELSE EffectValues(
         [e EXCEPT !.variables = [i \in 1..Len(h.val) |-> NewVariable(h.val[i])]],
         ReadWords(h.s, 3 * e.num_variables))

\* the skip of 44 bytes, and of 8 more in version 0x6F
EffectSkip(e, s) ==
  EffectHashes(e, ReadWords(IF e.version = 111 THEN advance(s, 8) ELSE s,
                            e.num_variables))

\* the two counts read
EffectCounts(e, n) ==
  IF ~n.ok
  THEN Outcome("raised",
         [e EXCEPT !.num_variables = IF Len(n.val) >= 1 THEN n.val[1] ELSE @], n.s)
  ELSE EffectSkip([e EXCEPT !.num_variables = n.val[1],
                            !.num_particle_systems = n.val[2]],
                  advance(n.s, 44))

\* the two lifetimes read
EffectLifetimes(e, l) ==
  IF ~l.ok
  THEN Outcome("raised",
         [e EXCEPT !.min_lifetime = IF Len(l.val) >= 1 THEN l.val[1] ELSE @], l.s)
  ELSE EffectCounts([e EXCEPT !.min_lifetime = l.val[1], !.max_lifetime = l.val[2]],
                    ReadWords(advance(l.s, 8), 2))

\* the version read: v is what uint32_read gave
EffectVersion(e, v) ==
  IF ~v.ok THEN Outcome("raised", e, v.s)
  ELSE IF v.val \notin VALID_PARTICLE_EFFECT_VERSIONS
    THEN Outcome("returned", [e EXCEPT !.version = v.val], v.s)
  ELSE EffectLifetimes([e EXCEPT !.version = v.val], ReadWords(v.s, 2))

\* ParticleEffect.from_memory_stream on the effect e
ParticleEffect_from_memory_stream(e, s) ==
  EffectVersion([e EXCEPT !.variables = << >>, !.particle_systems = << >>],
                uint32_read(s))

RECURSIVE PackNameHashes(_)
\* the name hashes packed one after the other
PackNameHashes(variables) ==
  IF variables = << >> THEN << >>
  ELSE PackU32(Head(variables).name_hash) \o PackNameHashes(Tail(variables))

RECURSIVE PackValues(_)
\* the (x, y, z) triples packed one after the other
PackValues(variables) ==
  IF variables = << >> THEN << >>
  ELSE PackWords(<<Head(variables).x, Head(variables).y, Head(variables).z>>)
         \o PackValues(Tail(variables))

\* the loop writing the name hashes
WriteNameHashes(variables, s) == write(s, PackNameHashes(variables))

\* the loop writing the values
WriteValues(variables, s) == write(s, PackValues(variables))

RECURSIVE WriteSystems(_, _)
\* the loop over the particle systems
WriteSystems(systems, s) ==
  IF systems = << >> THEN s
  ELSE WriteSystems(Tail(systems),
         ParticleSystem_write_to_memory_stream(Head(systems),
           seek(s, Head(systems).offset)))

\* stream.data[stream.tell():stream.tell()] = bytearray(8)
InsertGap(s) ==
  [s EXCEPT !.data = SubSeq(s.data, 1, s.location) \o Zeros(8)
                       \o SubSeq(s.data, s.location + 1, Len(s.data))]

\* the shift of every particle system's offset that follows the insertion
ShiftOffsets(systems) ==
  [i \in 1..Len(systems) |-> [systems[i] EXCEPT !.offset = @ + 8]]

\* the two tables and the systems written
EffectTables(e, s) ==
  Outcome("returned", e,
          WriteSystems(e.particle_systems,
                       WriteValues(e.variables, WriteNameHashes(e.variables, s))))

\* the skip of the opaque run, with the 8 bytes inserted and every offset
\* shifted when the effect was not read as version 0x6F
EffectGap(e, s) ==
  IF e.version = 111 THEN EffectTables(e, advance(s, 52))
  ELSE EffectTables([e EXCEPT !.particle_systems = ShiftOffsets(@)],
                    advance(InsertGap(advance(s, 44)), 8))

\* a faulty variant of the tag below: the tag the effect was read with
VersionKept(e) == e.version

\* the version tag written for the effect e: the current one, whatever
\* version e was read as
VersionWritten(e) == CURRENT_PARTICLE_EFFECT_VERSION

\* ParticleEffect.write_to_memory_stream: the effect and the stream after it
ParticleEffect_write_to_memory_stream(e, s) ==
  EffectGap(e,
    write(write(advance(write(write(seek(s, 0),
                                    PackU32(VersionWritten(e))),
                              PackWords(<<e.min_lifetime, e.max_lifetime>>)),
                        8),
                PackU32(e.num_variables)),
          PackU32(e.num_particle_systems)))

(***************************************************************************)
(* The input files.  A file is laid out as ParticleEffect.from_memory_     *)
(* stream reads it: the effect header, the name hashes, the values, then   *)
(* the particle systems back to back.  Opaque bytes are 0x40..0x5F, so no  *)
(* opaque word is a component tag; floats are 1.0 plus a few ulps.         *)
(***************************************************************************)
InFiller(n, k) == [i \in 1..n |-> 64 + ((i + k) % 32)]

InFloat(k) == UnpackU32(<<k % 128, 0, 128, 63>>)

InFloats(n, k) == PackWords([i \in 1..n |-> InFloat(k + i)])

\* a graph stored twice; with differ the first copy is not the second
InGraphTwice(k, differ) ==
  InFloats(20, IF differ THEN k + 50 ELSE k) \o InFloats(20, k)

\* a free-standing graph component: the window [0x04, 0x20, *, *], one more
\* opaque word, the graph twice and 8 trailing bytes
InFreeGraph(k, differ) ==
  PackU32(4) \o PackU32(32) \o InFiller(12, k) \o InGraphTwice(k, differ)
    \o InFiller(8, k)

\* a color-graph bundle: the window [0x05, 0x21, *, scale.x[0]], the scale
\* and the opacity graph twice each, the color graph and 16 trailing bytes
InBundle(k, differ) ==
  PackU32(5) \o PackU32(33) \o InFiller(4, k) \o InGraphTwice(k, differ)
    \o InGraphTwice(k + 20, differ) \o InFloats(40, k + 40) \o InFiller(16, k)

\* a color-graph bundle without a scale graph: the window [0x0F, 0x21, *,
\* opacity.x[0]], the opacity graph twice, the color graph and 16 trailing
\* bytes
InBundleNoScale(k, differ) ==
  PackU32(15) \o PackU32(33) \o InFiller(4, k) \o InGraphTwice(k + 20, differ)
    \o InFloats(40, k + 40) \o InFiller(16, k)

\* a 0x11 block of 284 opaque bytes, then the window [*, 0x05, 0x21, *] and
\* after it a bundle: scale and opacity twice each, color, 16 trailing bytes
InBundleLate(k, differ) ==
  PackU32(17) \o InFiller(284, k) \o InFiller(4, k) \o PackU32(5) \o PackU32(33)
    \o InFiller(4, k) \o InGraphTwice(k, differ) \o InGraphTwice(k + 20, differ)
    \o InFloats(40, k + 40) \o InFiller(16, k)

\* a visualizer record of the given type
InVisualizer(type, k) ==
  PackU32(type) \o InFiller(SumSeq(VisualizerReads(type)), k)

\* a lone emitter record in a buffer: lead bytes before it, trail bytes after
\* it, its last cut bytes missing.  A rate emitter is two rates and a graph,
\* a burst emitter ten (time, count, count) samples.
InEmitter(tag, k) ==
  PackU32(tag) \o (IF tag = RATE THEN InFloats(22, k)
                   ELSE IF tag = BURST THEN InFloats(30, k)
                   ELSE InFiller(8, k))

InEmitterFile(p) ==
  InFiller(p.lead, 3)
    \o SubSeq(InEmitter(p.tag, p.fill), 1, Len(InEmitter(p.tag, p.fill)) - p.cut)
    \o InFiller(p.trail, 5)

EmitterParams ==
  [tag : (RATE - 1)..(BURST + 1), fill : 0..MaxFill, lead : {0, 4},
   trail : {0, 16}, cut : {0, 1}]

\* what follows the 260-byte header in a system of each kind
InBody(kind, k, differ) ==
  CASE kind = "trail" -> InFiller(12, k)
    [] kind = "zeros" -> InFiller(8, k) \o InVisualizer(BILLBOARD, k) \o Zeros(16)
    [] kind = "graph" ->
         InFiller(8, k) \o InVisualizer(MESH, k) \o InFiller(8, k)
           \o InFreeGraph(k, differ) \o InFiller(8, k)
    [] kind = "noscale" ->
         InFiller(8, k) \o InVisualizer(UNKNOWN3, k) \o InBundleNoScale(k, differ)
           \o InFiller(4, k)
    [] kind = "late" ->
         InFiller(8, k) \o InVisualizer(UNKNOWN4, k) \o InBundleLate(k, differ)
           \o Zeros(8)
    [] OTHER ->
         InFiller(8, k) \o InVisualizer(LIGHT, k) \o Zeros(4)
           \o InBundle(k, differ) \o InFiller(4, k)

\* the rotation block: three rows, each followed by 4 pad bytes
InRotation(matrix, pad) ==
  PackWords(matrix[1]) \o pad \o PackWords(matrix[2]) \o pad
    \o PackWords(matrix[3]) \o pad

\* the 260-byte header of a particle-system record
InHeader(k, non_rendering, rotation, visualizer_offset, size) ==
  PackU32(7) \o PackU32(1) \o InFiller(68, k) \o PackU32(non_rendering)
    \o InFiller(40, k) \o rotation \o InFloats(3, k) \o InFiller(52, k)
    \o PackU32(260) \o InFiller(4, k) \o PackU32(240) \o InFiller(8, k)
    \o PackU32(visualizer_offset) \o PackU32(size)

\* what the emitter region holds ahead of the body: nothing, or with the
\* trait "emitter" a rate emitter and 4 opaque bytes
InLead(defect, k) ==
  IF defect = "emitter" THEN InEmitter(RATE, k) \o InFiller(4, k) ELSE << >>

\* the record of the given lead and body; extra is added to its size field
InRecordOf(kind, k, defect, extra, lead, body) ==
  InHeader(k, IF kind = "nonrendering" THEN 1 ELSE 0,
           InRotation(IF defect = "scaled" THEN ScaledIdentityMatrix
                      ELSE IdentityMatrix,
                      IF defect = "pads" THEN <<1, 2, 3, 4>> ELSE Zeros(4)),
           IF kind = "trail" THEN 260 + Len(lead) + Len(body) + extra
           ELSE 268 + Len(lead),
           260 + Len(lead) + Len(body) + extra)
    \o lead \o body

InRecord(kind, k, defect, extra, body) ==
  InRecordOf(kind, k, defect, extra, InLead(defect, k), body)

\* one particle-system record
InSystem(kind, k, defect, extra) ==
  InRecord(kind, k, defect, extra, InBody(kind, k, defect = "copies"))

SystemKinds ==
  <<"bundle", "trail", "graph", "nonrendering", "zeros", "noscale", "late">>

\* the kinds of the n systems of a file whose first system is of kind first
KindsFrom(first, n) ==
  [i \in 1..n |-> SystemKinds[((first + i - 2) % Len(SystemKinds)) + 1]]

RECURSIVE InSystems(_, _, _)
InSystems(kinds, i, defect) ==
  IF i > Len(kinds) THEN << >>
  ELSE InSystem(kinds[i], 10 * i, defect,
                IF i # Len(kinds) THEN 0
                ELSE IF defect = "oversize" THEN 8
                ELSE IF defect = "undersize" THEN -12
                ELSE IF defect = "short" THEN -40 ELSE 0)
         \o InSystems(kinds, i + 1, defect)

\* a whole file
InFile(p) ==
  LET kinds == KindsFrom(p.first, p.systems)
      whole == PackU32(p.version) \o InFloats(2, 0) \o InFiller(8, 0)
                 \o PackU32(p.variables) \o PackU32(Len(kinds))
                 \o InFiller(IF p.version = 111 THEN 52 ELSE 44, 0)
                 \o InFloats(p.variables, 100) \o InFloats(3 * p.variables, 110)
                 \o InSystems(kinds, 1, p.defect)
  IN  IF p.defect = "truncated" THEN SubSeq(whole, 1, Len(whole) - 16) ELSE whole

\* the files: every version, unrecognized 0x70 included, without a trait;
\* the current and the oldest version with each trait: rotation pad bytes
\* not zero, a rotation matrix scaled, graph copies that differ, the last
\* record's size field 8 too large or 12 or 40 too small, the file cut 16
\* bytes short, an emitter in each record's emitter region
InputParams ==
  { [version |-> v, variables |-> n, first |-> f, systems |-> c, defect |-> "none"] :
      v \in {109, 110, 111, 112}, n \in {0, 2}, f \in 1..Len(SystemKinds),
      c \in 1..MaxSystems }
  \cup
  { [version |-> v, variables |-> 2, first |-> 1, systems |-> 0, defect |-> "none"] :
      v \in {109, 110, 111, 112} }
  \cup
  { [version |-> v, variables |-> 2, first |-> f, systems |-> c, defect |-> d] :
      v \in {109, 111}, f \in 1..Len(SystemKinds), c \in 1..MaxSystems,
      d \in {"pads", "scaled", "copies", "oversize", "truncated", "undersize",
              "emitter", "short"} }


\* a lone visualizer record in a buffer: lead bytes before it, trail bytes
\* after it, its last cut bytes missing
InVisualizerFile(p) ==
  InFiller(p.lead, 3)
    \o SubSeq(InVisualizer(p.tag, p.fill), 1,
              Len(InVisualizer(p.tag, p.fill)) - p.cut)
    \o InFiller(p.trail, 5)

VisualizerParams ==
  [tag : 0..MaxTag, fill : 0..MaxFill, lead : {0, 4}, trail : {0, 8}, cut : {0, 1}]

\* the chunks a component region is built from
InChunk(name) ==
  CASE name = "zero" -> Zeros(4)
    [] name = "filler" -> InFiller(4, 1)
    [] name = "low" -> PackU32(5) \o PackU32(31)
    [] name = "skip" -> PackU32(11) \o InFiller(24, 2)
    [] name = "graph" -> InFreeGraph(3, TRUE)
    [] name = "noscale" -> InBundleNoScale(5, TRUE)
    [] name = "late" -> InBundleLate(6, TRUE)
    [] name = "mark" -> PackU32(17) \o InFiller(16, 7)
    [] name = "rates" -> PackU32(17) \o PackU32(11) \o InFiller(24, 8)
    [] name = "stub" -> PackU32(4) \o PackU32(32)
    [] name = "far" -> PackU32(17) \o InFiller(292, 9)
    [] OTHER -> InBundle(4, TRUE)

ChunkNames ==
  {"zero", "filler", "low", "skip", "graph", "bundle", "noscale", "late", "mark",
   "rates", "stub", "far"}

RECURSIVE InChunks(_)
InChunks(names) ==
  IF names = << >> THEN << >> ELSE InChunk(Head(names)) \o InChunks(Tail(names))

\* the component regions: runs of zero bytes and sequences of chunks
ScanRegions ==
  { Zeros(n) : n \in 0..MaxRegion }
  \cup UNION { { InChunks(names) : names \in [1..n -> ChunkNames] } : n \in 1..MaxChunks }

\* one rendering record whose visualizer follows the header at once and whose
\* component region is region, in a buffer with trail bytes after the record
InScanFile(type, region, trail) ==
  InHeader(0, 0, InRotation(IdentityMatrix, Zeros(4)), 260,
           260 + Len(InVisualizer(type, 0)) + Len(region))
    \o InVisualizer(type, 0) \o region \o InFiller(trail, 6)

(***************************************************************************)
(* The editor session: a file is loaded into a stream and decoded, one     *)
(* graph sample may be edited, and the effect is saved into the stream.    *)
(***************************************************************************)
VARIABLES
  input,    \* the bytes of the file as loaded
  stream,   \* the MemoryStream the file was loaded into
  effect,   \* the ParticleEffect
  result,   \* how from_memory_stream ended: "none" before it ran
  edit,     \* the one edit made, or NoEdit
  before,   \* the buffer as it was before the latest save
  encodes,  \* the saves made
  vis,      \* a lone Visualizer being read and written: [ok, val, at, st]
  scan,     \* a lone ParticleSystem being read: the scan state [ps, s, st]
  emit,     \* a lone Emitter being read and written: [ok, val, at, st]
  op        \* the latest call made on a lone MemoryStream, or NoOp

vars == <<input, stream, effect, result, edit, before, encodes, vis, scan, emit, op>>

NoEdit == [system |-> 0, list |-> "none", index |-> 0, sample |-> 0, old |-> 0]

NoVis == [ok |-> FALSE, val |-> NoVisualizer, at |-> 0, st |-> "none"]

NoScan == [ps |-> NewParticleSystem, s |-> MemoryStream(<< >>), st |-> "none"]

NoEmit == [ok |-> FALSE, val |-> NoEmitter, at |-> 0, st |-> "none"]

NoOp == [name |-> "none", arg |-> 0, ok |-> TRUE, val |-> << >>,
         was |-> MemoryStream(<< >>), n |-> 0]

Init ==
  \E p \in InputParams :
    /\ input = InFile(p)
    /\ stream = MemoryStream(input)
    /\ effect = NewParticleEffect
    /\ result = "none"
    /\ edit = NoEdit
    /\ before = << >>
    /\ encodes = 0
    /\ vis = NoVis
    /\ scan = NoScan
    /\ emit = NoEmit
    /\ op = NoOp

\* MainWindow.load_archive: the decode of the loaded file
Decode ==
  /\ result = "none"
  /\ LET o == ParticleEffect_from_memory_stream(effect, stream)
     IN  /\ effect' = o.effect
         /\ stream' = o.s
         /\ result' = o.result
  /\ UNCHANGED <<input, edit, before, encodes, vis, scan, emit, op>>

\* the graph lists of a particle system that hold Graph objects
GraphLists == {"scale_graphs", "opacity_graphs", "other_graphs"}

\* the effect with y[sample] of one graph set to value
SetSample(e, i, list, j, sample, value) ==
  [e EXCEPT !.particle_systems[i][list][j].y[sample] = value]

\* the editor setting the value of one sample of one decoded graph
EditSample ==
  /\ result = "returned"
  /\ edit = NoEdit
  /\ encodes = 0
  /\ \E i \in 1..Len(effect.particle_systems), list \in GraphLists :
       \E j \in 1..Len(effect.particle_systems[i][list]), sample \in {1, 10} :
         /\ effect.particle_systems[i][list][j] # NoGraph
         /\ edit' = [system |-> i, list |-> list, index |-> j, sample |-> sample,
                     old |-> effect.particle_systems[i][list][j].y[sample]]
         /\ effect' = SetSample(effect, i, list, j, sample, FloatTwo)
  /\ UNCHANGED <<input, stream, result, before, encodes, vis, scan, emit, op>>

\* MainWindow.saveArchive: seek(0), then the encode into the same stream
Encode ==
  /\ result # "none"
  /\ encodes < MaxEncodes
  /\ LET o == ParticleEffect_write_to_memory_stream(effect, seek(stream, 0))
     IN  /\ effect' = o.effect
         /\ stream' = o.s
  /\ before' = stream.data
  /\ encodes' = encodes + 1
  /\ UNCHANGED <<input, result, edit, vis, scan, emit, op>>

Next == Decode \/ EditSample \/ Encode

Spec == Init /\ [][Next]_vars

(***************************************************************************)
(* A lone visualizer: read at a position of a buffer as ParticleSystem.    *)
(* from_memory_stream reads it, and written back at that position as      *)
(* ParticleSystem.write_to_memory_stream writes it.                        *)
(***************************************************************************)
VisInit ==
  \E p \in VisualizerParams :
    /\ input = InVisualizerFile(p)
    /\ stream = seek(MemoryStream(input), p.lead)
    /\ vis = [NoVis EXCEPT !.at = p.lead, !.st = "new"]
    /\ effect = NewParticleEffect
    /\ result = "none"
    /\ edit = NoEdit
    /\ before = << >>
    /\ encodes = 0
    /\ scan = NoScan
    /\ emit = NoEmit
    /\ op = NoOp

\* visualizer.from_memory_stream(stream) at the position sought
VisDecode ==
  /\ vis.st = "new"
  /\ LET r == Visualizer_from_memory_stream(stream)
     IN  /\ vis' = [ok |-> r.ok, val |-> r.val, at |-> vis.at, st |-> "decoded"]
         /\ stream' = r.s
  /\ UNCHANGED <<input, effect, result, edit, before, encodes, scan, emit, op>>

\* stream.seek to the position, then self.visualizer.write_to_memory_stream
VisEncode ==
  /\ vis.st = "decoded"
  /\ vis.ok
  /\ stream' = Visualizer_write_to_memory_stream(vis.val, seek(stream, vis.at))
  /\ before' = stream.data
  /\ vis' = [vis EXCEPT !.st = "encoded"]
  /\ UNCHANGED <<input, effect, result, edit, encodes, scan, emit, op>>

VisNext == VisDecode \/ VisEncode

SpecVis == VisInit /\ [][VisNext]_vars

(***************************************************************************)
(* A lone particle system read step by step: the header and the            *)
(* visualizer, then one pass through the component loop per step, then     *)
(* the final seek.  A running program keeps running: each step is weakly   *)
(* fair.  For the two steps that decode, weak fairness is written out,     *)
(* []<>(~ENABLED <<A>>_vars) \/ []<><<A>>_vars, with ENABLED <<A>>_vars     *)
(* given as the state predicate it amounts to.                             *)
(***************************************************************************)
\* the bytes that follow the lone record in its buffer: none after a Light
\* record, 8 after a Mesh record
ScanTrail(type) == IF type = LIGHT THEN 0 ELSE 8

ScanInit ==
  \E type \in {LIGHT, MESH}, region \in ScanRegions :
    /\ input = InScanFile(type, region, ScanTrail(type))
    /\ stream = MemoryStream(input)
    /\ scan = [NoScan EXCEPT !.st = "new"]
    /\ effect = NewParticleEffect
    /\ result = "none"
    /\ edit = NoEdit
    /\ before = << >>
    /\ encodes = 0
    /\ vis = NoVis
    /\ emit = NoEmit
    /\ op = NoOp

\* the scan state after the visualizer read v
ScanEntered(ps, v) == IF v.ok THEN ScanStart(ps, v) ELSE Raised(ps, v.s)

\* the scan state after the header read h made at position offset (the
\* records here are rendering and have a visualizer)
ScanHeader(offset, h) ==
  IF ~h.ok THEN Raised(NewParticleSystem, h.s)
  ELSE ScanEntered(HeaderFields(offset, h.val),
         Visualizer_from_memory_stream(
           seek(h.s, offset + HeaderFields(offset, h.val).visualizer_offset)))

\* the header and the visualizer read
ScanBegin ==
  /\ scan.st = "new"
  /\ scan' = ScanHeader(tell(stream), ReadFields(stream, HeaderReads))
  /\ stream' = scan'.s
  /\ UNCHANGED <<input, effect, result, edit, before, encodes, vis, emit, op>>

\* one pass through the while loop
ScanIterate ==
  /\ scan.st = "scan"
  /\ scan' = ScanStep(scan.ps, scan.s)
  /\ stream' = scan'.s
  /\ UNCHANGED <<input, effect, result, edit, before, encodes, vis, emit, op>>

\* the seek to the end of the record after the loop
ScanFinish ==
  /\ scan.st = "exit"
  /\ scan' = [ps |-> scan.ps, s |-> seek(scan.s, scan.ps.offset + scan.ps.size),
              st |-> "done"]
  /\ stream' = scan'.s
  /\ UNCHANGED <<input, effect, result, edit, before, encodes, vis, emit, op>>

ScanNext == ScanBegin \/ ScanIterate \/ ScanFinish

\* ENABLED <<ScanBegin>>_vars
CanBegin == scan.st = "new"

\* ENABLED <<ScanIterate>>_vars: a pass can be made and changes the state
CanIterate == scan.st = "scan" /\ ScanStep(scan.ps, scan.s) # scan

SpecScan ==
  /\ ScanInit /\ [][ScanNext]_vars
  /\ WF_vars(ScanFinish)
  /\ ([]<>(~CanBegin) \/ []<><<ScanBegin>>_vars)
  /\ ([]<>(~CanIterate) \/ []<><<ScanIterate>>_vars)

(***************************************************************************)
(* A lone emitter: read at a position of a buffer, and written back at    *)
(* that position as ParticleSystem.write_to_memory_stream writes the       *)
(* emitters it holds.                                                      *)
(***************************************************************************)
EmitInit ==
  \E p \in EmitterParams :
    /\ input = InEmitterFile(p)
    /\ stream = seek(MemoryStream(input), p.lead)
    /\ emit = [NoEmit EXCEPT !.at = p.lead, !.st = "new"]
    /\ effect = NewParticleEffect
    /\ result = "none"
    /\ edit = NoEdit
    /\ before = << >>
    /\ encodes = 0
    /\ vis = NoVis
    /\ scan = NoScan
    /\ op = NoOp

\* emitter.from_memory_stream(stream) at the position sought
EmitDecode ==
  /\ emit.st = "new"
  /\ LET r == Emitter_from_memory_stream(stream)
     IN  /\ emit' = [ok |-> r.ok, val |-> r.val, at |-> emit.at, st |-> "decoded"]
         /\ stream' = r.s
  /\ UNCHANGED <<input, effect, result, edit, before, encodes, vis, scan, op>>

\* stream.seek(offset), then self.emitters[index].write_to_memory_stream
EmitEncode ==
  /\ emit.st = "decoded"
  /\ emit.ok
  /\ stream' = Emitter_write_to_memory_stream(emit.val, seek(stream, emit.at))
  /\ before' = stream.data
  /\ emit' = [emit EXCEPT !.st = "encoded"]
  /\ UNCHANGED <<input, effect, result, edit, encodes, vis, scan, op>>

EmitNext == EmitDecode \/ EmitEncode

SpecEmit == EmitInit /\ [][EmitNext]_vars

(***************************************************************************)
(* A lone MemoryStream and the calls made on it.  The callers in the       *)
(* program seek to sums of unsigned fields and read fixed positive         *)
(* lengths; SpecStream makes such calls.  SpecStreamAny adds the calls the *)
(* signatures allow besides: a seek to a negative target, a read of a      *)
(* negative length (-1, the default, reads the rest of the buffer);        *)
(* SpecStreamReads adds only the reads.                                    *)
(***************************************************************************)
StreamInit ==
  \E n \in 0..MaxData :
    /\ input = InFiller(n, 0)
    /\ stream = MemoryStream(input)
    /\ op = NoOp
    /\ effect = NewParticleEffect
    /\ result = "none"
    /\ edit = NoEdit
    /\ before = << >>
    /\ encodes = 0
    /\ vis = NoVis
    /\ scan = NoScan
    /\ emit = NoEmit

\* the record of a call that returned the stream s
Called(name, arg, s) ==
  /\ op' = [name |-> name, arg |-> arg, ok |-> TRUE, val |-> << >>,
            was |-> stream, n |-> op.n + 1]
  /\ stream' = s

\* the record of a read that gave r
ReadCalled(length, r) ==
  /\ op' = [name |-> "read", arg |-> length, ok |-> r.ok, val |-> r.val,
            was |-> stream, n |-> op.n + 1]
  /\ stream' = r.s

\* the bytes a write is given: n bytes, none of them a byte of the input
WriteBytes(n) == [i \in 1..n |-> 200 + i]

StreamSeek ==
  /\ op.n < MaxOps
  /\ \E location \in 0..MaxArg : Called("seek", location, seek(stream, location))
  /\ UNCHANGED <<input, effect, result, edit, before, encodes, vis, scan, emit>>

StreamSeekNegative ==
  /\ op.n < MaxOps
  /\ \E location \in (-MaxArg)..(-1) :
       Called("seek", location, seek(stream, location))
  /\ UNCHANGED <<input, effect, result, edit, before, encodes, vis, scan, emit>>

StreamAdvance ==
  /\ op.n < MaxOps
  /\ \E offset \in (-MaxArg)..MaxArg :
       Called("advance", offset, advance(stream, offset))
  /\ UNCHANGED <<input, effect, result, edit, before, encodes, vis, scan, emit>>

StreamRead ==
  /\ op.n < MaxOps
  /\ \E length \in 0..MaxArg : ReadCalled(length, read(stream, length))
  /\ UNCHANGED <<input, effect, result, edit, before, encodes, vis, scan, emit>>

StreamReadNegative ==
  /\ op.n < MaxOps
  /\ \E length \in (-MaxArg)..(-1) : ReadCalled(length, read(stream, length))
  /\ UNCHANGED <<input, effect, result, edit, before, encodes, vis, scan, emit>>

StreamWrite ==
  /\ op.n < MaxOps
  /\ \E n \in 0..MaxArg : Called("write", WriteBytes(n), write(stream, WriteBytes(n)))
  /\ UNCHANGED <<input, effect, result, edit, before, encodes, vis, scan, emit>>

StreamNext == StreamSeek \/ StreamAdvance \/ StreamRead \/ StreamWrite

SpecStream == StreamInit /\ [][StreamNext]_vars

\* the calls with a seek target that is not negative: reads of any length
StreamReadsNext == StreamNext \/ StreamReadNegative

SpecStreamReads == StreamInit /\ [][StreamReadsNext]_vars

StreamAnyNext == StreamNext \/ StreamSeekNegative \/ StreamReadNegative

SpecStreamAny == StreamInit /\ [][StreamAnyNext]_vars

(***************************************************************************)
(* The properties.  Byte positions are 0-based as in the source; the       *)
(* index of the byte at position p is p + 1.                               *)
(***************************************************************************)
\* the version tag a buffer starts with
VersionTag(data) == UnpackU32(SubSeq(data, 1, 4))

U32At(data, pos) == UnpackU32(SubSeq(data, pos + 1, pos + 4))

U64At(data, pos) == << U32At(data, pos), U32At(data, pos + 4) >>

\* the indices of the length bytes from position start on
Range(start, length) == (start + 1)..(start + length)

\* the indices at which buffer a differs from buffer b
Differ(a, b) == { p \in 1..Len(a) : p > Len(b) \/ a[p] # b[p] }

\* the size of a visualizer record, tag included
VisualizerSize(tag) ==
  CASE tag \in {0, 1, 4} -> 260
    [] tag \in {2, 3} -> 252
    [] OTHER -> 4

\* C1: for a current-version (0x6F) buffer that decodes without error, decode
\* then encode with no field changed leaves the buffer equal to the input,
\* byte for byte.
C1_RoundTripIdentity ==
  (VersionTag(input) = 111 /\ result = "returned" /\ edit = NoEdit /\ encodes = 1)
    => stream.data = input

\* where the first on-disk copy of the edited graph starts
EditedGraphPosition ==
  LET ps == effect.particle_systems[edit.system]
  IN  CASE edit.list = "other_graphs" -> ps.offset + ps.other_graph_offsets[edit.index]
        [] edit.list = "scale_graphs" -> ps.offset + ps.color_graph_offsets[edit.index]
        [] OTHER -> ps.offset + ps.color_graph_offsets[edit.index]
                      + (IF ps.scale_graphs[edit.index] = NoGraph THEN 0 ELSE 160)

\* the slot of the edited sample in the copy-th on-disk copy (0 or 1): a
\* copy is 80 bytes, its y values start 40 bytes in
EditedSlot(copy) ==
  Range(EditedGraphPosition + 80 * copy + 40 + 4 * (edit.sample - 1), 4)

\* what the save would have produced had the sample kept its old value
UneditedEncode ==
  ParticleEffect_write_to_memory_stream(
    SetSample(effect, edit.system, edit.list, edit.index, edit.sample, edit.old),
    MemoryStream(before)).s.data

SystemRanges(ps) ==
  Range(ps.offset, 260)
  \cup (IF ps.non_rendering # 0 \/ ps.visualizer_offset = ps.size THEN {}
        ELSE Range(ps.offset + ps.visualizer_offset,
                   VisualizerSize(ps.visualizer.visualizer_type)))
  \cup UNION { Range(ps.offset + ps.other_graph_offsets[j], 160) :
                 j \in 1..Len(ps.other_graph_offsets) }
  \cup UNION { Range(ps.offset + ps.color_graph_offsets[j],
                     IF ps.scale_graphs[j] = NoGraph THEN 320 ELSE 480) :
                 j \in 1..Len(ps.color_graph_offsets) }

\* the same for the whole current-version effect: version and lifetimes,
\* the two counts, the variable table after the 52 opaque bytes, the systems
StructuredRanges ==
  Range(0, 12) \cup Range(20, 8) \cup Range(80, 16 * Len(effect.variables))
  \cup UNION { SystemRanges(effect.particle_systems[i]) :
                 i \in 1..Len(effect.particle_systems) }

\* C3: encoding a decoded current-version effect, edited or not, changes no
\* byte outside the ranges decode read into fields: every such byte keeps
\* its input value, and the buffer keeps its length.
C3_OpaqueBytesUntouched ==
  (VersionTag(input) = 111 /\ result = "returned" /\ encodes >= 1)
    => /\ Len(stream.data) = Len(before)
       /\ \A p \in (1..Len(stream.data)) \ StructuredRanges :
            /\ stream.data[p] = before[p]
            /\ p <= Len(input) => stream.data[p] = input[p]

C3_Witness ==
  /\ VersionTag(input) = 111
  /\ result = "returned"
  /\ encodes = 1
  /\ edit # NoEdit
  /\ \E i \in 1..Len(effect.particle_systems) :
       /\ effect.particle_systems[i].color_graph_offsets # << >>
       /\ effect.particle_systems[i].offset > 80
  /\ \E p \in (1..Len(input)) \ StructuredRanges : input[p] # 0
  /\ stream.data # input

\* C4: decoding a 0x6D or 0x6E effect and encoding it once gives a buffer in
\* the current layout: tag 0x6F, the name hashes after a 52-byte gap, 8 bytes
\* longer than the input, every system's header at its stored offset and
\* every visualizer tag at system start + visualizer_offset.
C4_MigrationLayout ==
  (VersionTag(input) \in {109, 110} /\ result = "returned" /\ encodes = 1)
    => /\ VersionTag(stream.data) = 111
       /\ Len(stream.data) = Len(input) + 8
       /\ \A i \in 1..Len(effect.variables) :
            U32At(stream.data, 80 + 4 * (i - 1)) = effect.variables[i].name_hash
       /\ \A i \in 1..Len(effect.particle_systems) :
            LET ps == effect.particle_systems[i]
            IN  /\ SubSeq(stream.data, ps.offset + 1, ps.offset + 260) = HeaderBytes(ps)
                /\ ps.visualizer # NoVisualizer
                     => U32At(stream.data, ps.offset + ps.visualizer_offset)
                          = ps.visualizer.visualizer_type

\* C5: after any encode the buffer starts with 0x6F, and a buffer never
\* starts with an older tag unless it is the loaded file, not yet encoded.
C5_EncodeTargetsCurrentVersion ==
  /\ encodes > 0 => VersionTag(stream.data) = 111
  /\ VersionTag(stream.data) \in {109, 110}
       => encodes = 0 /\ VersionTag(input) = VersionTag(stream.data)

C5_Witness ==
  /\ encodes > 0
  /\ VersionTag(input) = 109
  /\ effect.version = 109
  /\ VersionTag(stream.data) = 111

\* the bytes an encode inserted ahead of the systems: 8 unless the effect
\* was read as version 0x6F
Inserted == IF effect.version = 111 THEN 0 ELSE 8

\* C6: a particle system whose non-rendering flag is not zero is decoded
\* with no emitters, no visualizer and no graph components, and an encode
\* changes no byte of its record after the 260-byte header.
C6_NonRenderingShortCircuit ==
  \A i \in 1..Len(effect.particle_systems) :
    LET ps == effect.particle_systems[i]
    IN  ps.non_rendering # 0
          => /\ ps.emitters = << >> /\ ps.emitter_offsets = << >>
             /\ ps.visualizer = NoVisualizer
             /\ ps.scale_graphs = << >> /\ ps.opacity_graphs = << >>
             /\ ps.color_graphs = << >> /\ ps.color_graph_offsets = << >>
             /\ ps.other_graphs = << >> /\ ps.other_graph_offsets = << >>
             /\ encodes >= 1
                  => \A k \in 261..ps.size :
                       stream.data[ps.offset + k] = before[ps.offset - Inserted + k]

C6_Witness ==
  /\ encodes >= 1
  /\ \E i \in 1..Len(effect.particle_systems) :
       /\ effect.particle_systems[i].non_rendering # 0
       /\ effect.particle_systems[i].size > 700
       /\ U32At(stream.data, effect.particle_systems[i].offset + 268) = LIGHT
       /\ U32At(stream.data, effect.particle_systems[i].offset + 532) = 5

\* C7 as stated: on a first u32 that is none of 0x6F, 0x6E, 0x6D decode
\* fails, having read only those 4 bytes, and leaves the effect with no
\* variables and no particle systems.
C7_UnsupportedVersionFails ==
  (result # "none" /\ encodes = 0 /\ VersionTag(input) \notin {111, 110, 109})
    => /\ result = "raised"
       /\ stream.location = 4
       /\ effect.variables = << >>
       /\ effect.particle_systems = << >>

\* C7, amended: on a first u32 that is none of 0x6F, 0x6E, 0x6D decode
\* returns normally, having read only those 4 bytes and changed no byte, and
\* leaves a default effect (no variables, no particle systems) whose version
\* field holds the unrecognized tag.
C7_UnsupportedVersionReturnsEmpty ==
  (result # "none" /\ encodes = 0 /\ VersionTag(input) \notin {111, 110, 109})
    => /\ result = "returned"
       /\ stream = [data |-> input, location |-> 4]
       /\ effect = [NewParticleEffect EXCEPT !.version = VersionTag(input)]

C7_Witness ==
  /\ result = "returned"
  /\ encodes = 0
  /\ VersionTag(input) = 112
  /\ U32At(input, 24) = 2
  /\ effect.particle_systems = << >>

\* C8: when a read goes out of bounds while a particle system is decoded,
\* decode fails and the effect keeps no particle system.
C8_NoPartialSystemList ==
  (result = "raised" /\ encodes = 0) => effect.particle_systems = << >>

\* where the component region of the record being scanned starts and ends
RegionStart ==
  scan.ps.offset + scan.ps.visualizer_offset
    + VisualizerSize(scan.ps.visualizer.visualizer_type)

RegionEnd == scan.ps.offset + scan.ps.size

\* the record is a rendering one with a visualizer, and every byte from the
\* end of the visualizer to offset + size is 0x00
ZeroRegion ==
  /\ scan.st \in {"scan", "exit", "done", "raised"}
  /\ scan.ps.non_rendering = 0
  /\ scan.ps.visualizer # NoVisualizer
  /\ RegionEnd <= Len(input)
  /\ \A p \in Range(RegionStart, RegionEnd - RegionStart) : input[p] = 0

NoComponents ==
  /\ scan.ps.color_graph_offsets = << >> /\ scan.ps.other_graph_offsets = << >>
  /\ scan.ps.scale_graphs = << >> /\ scan.ps.opacity_graphs = << >>
  /\ scan.ps.color_graphs = << >> /\ scan.ps.other_graphs = << >>

\* the loop is over: it ended and the final seek was made, or its read of a
\* component type, begun inside the record with fewer than 4 bytes left in
\* the buffer, went past the end of the buffer
ScanEnded ==
  \/ scan.st = "done" /\ scan.s.location = RegionEnd
  \/ /\ scan.st = "raised"
     /\ scan.s.location < RegionEnd
     /\ Len(scan.s.data) - scan.s.location < 4

\* C9: for a rendering particle system with a visualizer whose component
\* region holds only 0x00 bytes, the component loop ends, and no color-graph
\* bundle and no free-standing graph is ever recorded.
C9_ScanEndsOnZeros == [](ZeroRegion => NoComponents) /\ (ZeroRegion ~> ScanEnded)

C9_Witness ==
  /\ ZeroRegion
  /\ scan.st = "done"
  /\ RegionEnd - RegionStart >= 16
  /\ NoComponents
  /\ scan.s.location = RegionEnd

\* C10: for each tag 0..4 of a record the buffer holds whole, Visualizer
\* decode consumes the variant's size (260, 260, 252, 252, 260 bytes, tag
\* included) and takes the variant's ID fields from their places, and the
\* unchanged visualizer encoded at the same position writes as many bytes
\* and leaves the buffer as it was.
C10_VisualizerTagDispatch ==
  LET tag == U32At(input, vis.at)
      size == VisualizerSize(U32At(input, vis.at))
      v == vis.val
  IN  (/\ vis.st \in {"decoded", "encoded"}
       /\ vis.at + 4 <= Len(input)
       /\ tag \in 0..4
       /\ vis.at + size <= Len(input))
        => /\ vis.ok
           /\ v.visualizer_type = tag
           /\ stream.location = vis.at + size
           /\ stream.data = input
           /\ tag \in {BILLBOARD, UNKNOWN3}
                => /\ v.unk1 = U32At(input, vis.at + 4)
                   /\ v.unk2 = U32At(input, vis.at + 8)
                   /\ v.material_id = U64At(input, vis.at + 12)
                   /\ v.data = SubSeq(input, vis.at + 21, vis.at + size)
           /\ tag = LIGHT => v.data = SubSeq(input, vis.at + 5, vis.at + size)
           /\ tag = MESH
                => /\ v.unit_id = U64At(input, vis.at + 4)
                   /\ v.mesh_id = U64At(input, vis.at + 12)
                   /\ v.material_id = U64At(input, vis.at + 20)
                   /\ v.data = SubSeq(input, vis.at + 29, vis.at + size)
           /\ tag = UNKNOWN4
                => /\ v.material_id = U64At(input, vis.at + 4)
                   /\ v.data = SubSeq(input, vis.at + 13, vis.at + size)

C10_Witness ==
  /\ vis.st = "encoded"
  /\ vis.val.visualizer_type = MESH
  /\ vis.at = 4
  /\ Len(input) = 4 + 252 + 8
  /\ stream.location = 256
  /\ vis.val.mesh_id # vis.val.unit_id

\* the tag of the lone emitter record
EmitterTag == U32At(input, emit.at)

\* the lone emitter was decoded without a read going out of bounds
EmitterDecoded ==
  emit.st = "decoded" /\ emit.ok /\ EmitterTag \in {RATE, BURST}

\* C12 as stated: Emitter decode consumes 48 bytes after the 4-byte tag of a
\* Rate emitter (0x0B) and 120 bytes after the tag of a Burst emitter (0x0C).
C12_RateConsumes48 ==
  EmitterDecoded =>
    stream.location = emit.at + 4 + (IF EmitterTag = RATE THEN 48 ELSE 120)

\* C12, amended: Emitter decode consumes 88 bytes after the 4-byte tag of a
\* Rate emitter (8 bytes of min/max rate and the 80 bytes of its Graph) and
\* 120 bytes after the tag of a Burst emitter; the fields hold the words read
\* in that order and the buffer is not changed.
C12_EmitterFixedSizes ==
  EmitterDecoded =>
    /\ stream.data = input
    /\ EmitterTag = RATE =>
         /\ stream.location = emit.at + 4 + 88
         /\ emit.val.initial_rate_min = U32At(input, emit.at + 4)
         /\ emit.val.initial_rate_max = U32At(input, emit.at + 8)
         /\ emit.val.rate_graph.x[1] = U32At(input, emit.at + 12)
         /\ emit.val.rate_graph.y[10] = U32At(input, emit.at + 88)
    /\ EmitterTag = BURST =>
         /\ stream.location = emit.at + 4 + 120
         /\ emit.val.burst_graph.times[1] = U32At(input, emit.at + 4)
         /\ emit.val.burst_graph.num_particles[10][2] = U32At(input, emit.at + 120)

C12_Witness ==
  /\ EmitterDecoded
  /\ EmitterTag = BURST
  /\ emit.at = 4
  /\ stream.location = 128
  /\ Len(input) > 128

\* a decoded particle system that is rendering and has a visualizer
WithVisualizer(ps) == ps.non_rendering = 0 /\ ps.visualizer_offset # ps.size

\* the emitter decoded at position p of data ends before position to
EmitterFits(data, p, to) ==
  /\ Emitter_from_memory_stream([data |-> data, location |-> p]).ok
  /\ Emitter_from_memory_stream([data |-> data, location |-> p]).s.location < to

EmitterEnd(data, p) ==
  Emitter_from_memory_stream([data |-> data, location |-> p]).s.location

RECURSIVE EmittersIn(_, _, _)
\* the positions of the emitters the region [p, to) of data holds: the
\* region walked one u32 at a time, every Rate or Burst emitter found whose
\* decode ends before to taken, the walk resumed after it
EmittersIn(data, p, to) ==
  IF p + 4 > to \/ p + 4 > Len(data) THEN << >>
  ELSE IF U32At(data, p) \notin {RATE, BURST} THEN EmittersIn(data, p + 4, to)
  ELSE IF ~EmitterFits(data, p, to) THEN << >>
  ELSE <<p>> \o EmittersIn(data, EmitterEnd(data, p), to)

\* the emitter list and the offset list of ps hold the emitters at the
\* positions found, in order
HoldsEmitters(ps, data, found) ==
  /\ ps.emitter_offsets = found
  /\ Len(ps.emitters) = Len(found)
  /\ \A j \in 1..Len(found) :
       ps.emitters[j] =
         Emitter_from_memory_stream([data |-> data, location |-> found[j]]).val

\* C11: after decode, every rendering particle system that has a visualizer
\* holds in its emitter list, each with its byte offset, the Rate and Burst
\* emitters that its emitter region [emitter_offset, visualizer_offset) holds
\* and whose decode ends before the visualizer offset.
C11_EmittersScanned ==
  (result = "returned" /\ encodes = 0) =>
    \A i \in 1..Len(effect.particle_systems) :
      WithVisualizer(effect.particle_systems[i]) =>
        HoldsEmitters(effect.particle_systems[i], input,
          EmittersIn(input,
            effect.particle_systems[i].offset
              + effect.particle_systems[i].emitter_offset,
            effect.particle_systems[i].offset
              + effect.particle_systems[i].visualizer_offset))

\* C13: MemoryStream.read(n) raises exactly when position + n exceeds the
\* length of the buffer, and then leaves position and buffer as they were; a
\* read that succeeds returns the n bytes at the position and advances the
\* position by n without changing the buffer.
C13_ReadBounds ==
  op.name = "read" =>
    /\ op.ok <=> ~(op.was.location + op.arg > Len(op.was.data))
    /\ ~op.ok => stream = op.was
    /\ op.ok =>
         /\ Len(op.val) = op.arg
         /\ \A i \in 1..op.arg : op.val[i] = op.was.data[op.was.location + i]
         /\ stream.location = op.was.location + op.arg
         /\ stream.data = op.was.data

C13_Witness ==
  /\ op.name = "read"
  /\ op.ok
  /\ op.arg = 1
  /\ op.was.location = 1
  /\ Len(op.was.data) = 2
  /\ op.val = <<input[2]>>

\* C14: after any sequence of seek, advance, read and write calls on a
\* MemoryStream, with any integer arguments, the position is not negative.
C14_PositionNeverNegative == stream.location >= 0

\* the position the latest call left, were it made at a position within the
\* buffer
StreamEnd ==
  CASE op.name = "seek" -> op.arg
    [] op.name = "advance" ->
         IF op.was.location + op.arg < 0 THEN 0 ELSE op.was.location + op.arg
    [] op.name = "write" -> op.was.location + Len(op.arg)
    [] OTHER -> stream.location

\* the bytes a write put at index i of the buffer, if it put any
WrittenAt(i) ==
  op.name = "write" /\ i > op.was.location /\ i <= op.was.location + Len(op.arg)

\* C15: a seek to a position beyond the end of the buffer, an advance that
\* lands beyond it and a write that ends beyond it each grow the buffer with
\* zero bytes up to the new end, and the write then stores its bytes at the
\* position; every byte that was there before and is outside the written
\* range keeps its value.
C15_ZeroExtension ==
  op.name \in {"seek", "advance", "write"} =>
    /\ stream.location = StreamEnd
    /\ Len(stream.data) =
         IF StreamEnd > Len(op.was.data) THEN StreamEnd ELSE Len(op.was.data)
    /\ \A i \in 1..Len(stream.data) :
         stream.data[i] =
           IF WrittenAt(i) THEN op.arg[i - op.was.location]
           ELSE IF i <= Len(op.was.data) THEN op.was.data[i]
           ELSE 0

C15_Witness ==
  /\ op.name = "write"
  /\ op.was.location = 3
  /\ Len(op.was.data) = 3
  /\ op.was.data[3] = 0
  /\ Len(op.arg) = 2
  /\ Len(stream.data) = 5

\* where the name-hash table of a file starts: after the 28 header bytes and
\* the opaque run of 44 bytes, which version 0x6F has 8 more of
TableStart(data) == IF VersionTag(data) = 111 THEN 80 ELSE 72

\* C16: after a decode of a recognized-version buffer that returns without
\* error, the effect holds as many variables and as many particle systems as
\* the two counts of the header say, and variable i pairs the i-th name hash
\* with the i-th (x, y, z) triple.
C16_CountsMatchHeader ==
  (result = "returned" /\ VersionTag(input) \in {109, 110, 111}) =>
    /\ Len(effect.variables) = U32At(input, 20)
    /\ Len(effect.particle_systems) = U32At(input, 24)
    /\ effect.num_variables = U32At(input, 20)
    /\ effect.num_particle_systems = U32At(input, 24)
    /\ \A i \in 1..Len(effect.variables) :
         /\ effect.variables[i].name_hash =
              U32At(input, TableStart(input) + 4 * (i - 1))
         /\ effect.variables[i].x =
              U32At(input, TableStart(input) + 4 * U32At(input, 20) + 12 * (i - 1))
         /\ effect.variables[i].y =
              U32At(input, TableStart(input) + 4 * U32At(input, 20) + 12 * (i - 1) + 4)
         /\ effect.variables[i].z =
              U32At(input, TableStart(input) + 4 * U32At(input, 20) + 12 * (i - 1) + 8)

C16_Witness ==
  /\ result = "returned"
  /\ VersionTag(input) = 110
  /\ Len(effect.variables) = 2
  /\ Len(effect.particle_systems) = 2
  /\ effect.variables[2].z # effect.variables[1].z

\* C17: encoding the same decoded effect into the same stream twice in a row
\* with no edit in between gives the buffer that encoding once gave, for
\* every recognized source version 0x6D, 0x6E and 0x6F.
C17_EncodeIdempotent ==
  (result = "returned" /\ VersionTag(input) \in {109, 110, 111} /\ encodes = 2)
    => stream.data = before

\* the graph that the 80 bytes at position pos of data spell
GraphAt(data, pos) ==
  [x |-> UnpackWords(SubSeq(data, pos + 1, pos + 40), 10),
   y |-> UnpackWords(SubSeq(data, pos + 41, pos + 80), 10)]

\* where the two copies of the opacity graph of bundle j start
OpacityPosition(ps, j) ==
  BundlePosition(ps, j) + (IF ps.scale_graphs[j] = NoGraph THEN 0 ELSE 160)

\* the graph g is what the second of the two copies at pos holds
SecondCopyIs(data, pos, g) == GraphAt(data, pos + 80) = g

\* both copies at pos hold the graph g
BothCopiesAre(data, pos, g) ==
  GraphAt(data, pos) = g /\ GraphAt(data, pos + 80) = g

\* every graph of ps that is stored twice is what its second copy in data
\* holds
HoldsSecondCopies(ps, data) ==
  /\ \A j \in 1..Len(ps.other_graphs) :
       SecondCopyIs(data, OtherGraphPosition(ps, j), ps.other_graphs[j])
  /\ \A j \in 1..Len(ps.opacity_graphs) :
       /\ SecondCopyIs(data, OpacityPosition(ps, j), ps.opacity_graphs[j])
       /\ ps.scale_graphs[j] # NoGraph =>
            SecondCopyIs(data, BundlePosition(ps, j), ps.scale_graphs[j])

\* both copies in data of every graph of ps that is stored twice hold the
\* graph
CopiesWritten(ps, data) ==
  /\ \A j \in 1..Len(ps.other_graphs) :
       BothCopiesAre(data, OtherGraphPosition(ps, j), ps.other_graphs[j])
  /\ \A j \in 1..Len(ps.opacity_graphs) :
       /\ BothCopiesAre(data, OpacityPosition(ps, j), ps.opacity_graphs[j])
       /\ ps.scale_graphs[j] # NoGraph =>
            BothCopiesAre(data, BundlePosition(ps, j), ps.scale_graphs[j])

RecordEnd(ps) == ps.offset + ps.size

\* where the read of bundle j of ps ended: after its graphs and the 16
\* trailing bytes
BundleEnd(ps, j) == OpacityPosition(ps, j) + 160 + 160 + 16

\* C19: whenever ParticleSystem decode returns normally (non-rendering,
\* trail spawner or fully scanned, also when a component read overshot the
\* end of the record) the cursor is at offset + size, so every system was
\* read from where the one before it ended, the first from the end of the
\* value table.
C19_RecordBoundary ==
  (result \in {"returned", "raised"} /\ VersionTag(input) \in {109, 110, 111}
     /\ encodes = 0) =>
    /\ \A i \in 1..Len(effect.particle_systems) :
         effect.particle_systems[i].offset =
           IF i = 1 THEN TableStart(input) + 16 * U32At(input, 20)
           ELSE RecordEnd(effect.particle_systems[i - 1])
    /\ (result = "returned" /\ Len(effect.particle_systems) > 0) =>
         stream.location =
           RecordEnd(effect.particle_systems[Len(effect.particle_systems)])

\* the last system's size field is too small: the read of its bundle ended
\* beyond the end of the record, inside the buffer, and decode returned
C19_Witness ==
  /\ result = "returned"
  /\ encodes = 0
  /\ Len(effect.particle_systems) = 2
  /\ Len(effect.particle_systems[2].opacity_graphs) = 1
  /\ BundleEnd(effect.particle_systems[2], 1) > RecordEnd(effect.particle_systems[2])
  /\ BundleEnd(effect.particle_systems[2], 1) <= Len(input)
  /\ stream.location = RecordEnd(effect.particle_systems[2])

\* the loop of the lone particle system has ended: by its test or a break,
\* or by a read that went out of bounds
ScanOver == scan.st \in {"exit", "done", "raised"}

\* C20: every pass through the component scan loop that neither leaves the
\* loop nor raises leaves the cursor beyond where the pass began, whatever
\* the tag and the lookahead window, rewinds of 4 and 8 bytes included; so
\* the loop ends on every input.
C20_ScanProgress ==
  /\ [][(scan.st = "scan" /\ scan'.st = "scan")
          => scan'.s.location > scan.s.location]_vars
  /\ <>ScanOver

\* a pass began with the tag 0x04 and a subtype of 0x20, went back 8 bytes,
\* read the window and a free-standing graph, and the loop goes on
C20_Witness ==
  /\ scan.st = "scan"
  /\ Len(scan.ps.other_graphs) = 1
  /\ scan.s.location = scan.ps.offset + scan.ps.other_graph_offsets[1] + 168
  /\ scan.s.location < scan.ps.offset + scan.ps.size

\* C21: decode does not modify the buffer: after ParticleEffect decode has
\* returned or failed the buffer has the length and the bytes of the input,
\* also when a record's size field, a 0x0B skip or a header skip points
\* beyond the end of the buffer.
C21_DecodeKeepsBuffer ==
  (result # "none" /\ encodes = 0) => stream.data = input

\* the bytes a recorded bundle takes in the file: opacity twice and the
\* color graph, and the scale twice before them unless it is absent (a
\* free-standing graph takes 160: the graph twice)
BundleLength(ps, j) == IF ps.scale_graphs[j] = NoGraph THEN 320 ELSE 480

\* where the visualizer record of ps ends, from the record's start
VisualizerEnd(ps) ==
  ps.visualizer_offset + VisualizerSize(ps.visualizer.visualizer_type)

\* C22: every graph component recorded by decode lies wholly within its
\* particle system's record: its recorded offset is at or after the end of
\* the visualizer, and its offset plus its encoded length (two graphs for a
\* free-standing graph, the full bundle for a color-graph bundle) is at most
\* the record size.
C22_ComponentsInsideRecord ==
  (result = "returned" /\ encodes = 0) =>
    \A i \in 1..Len(effect.particle_systems) :
      /\ \A j \in 1..Len(effect.particle_systems[i].other_graph_offsets) :
           /\ effect.particle_systems[i].other_graph_offsets[j]
                >= VisualizerEnd(effect.particle_systems[i])
           /\ effect.particle_systems[i].other_graph_offsets[j] + 160
                <= effect.particle_systems[i].size
      /\ \A j \in 1..Len(effect.particle_systems[i].color_graph_offsets) :
           /\ effect.particle_systems[i].color_graph_offsets[j]
                >= VisualizerEnd(effect.particle_systems[i])
           /\ effect.particle_systems[i].color_graph_offsets[j]
                + BundleLength(effect.particle_systems[i], j)
                <= effect.particle_systems[i].size

\* the u32 at k words after the cursor of the lone particle system's scan
ScanWord(k) == U32At(scan.s.data, scan.s.location + 4 * k)

\* a pass of the scan loop begins at a tag 0x04, 0x05 or 0x0F whose subtype
\* word the buffer holds
AtCandidate ==
  /\ scan.st = "scan"
  /\ scan.s.location < RecordEnd(scan.ps)
  /\ scan.s.location + 8 <= Len(scan.s.data)
  /\ ScanWord(0) \in {4, 5, 15}

\* the system with one more recorded offset in the list the tag stands for:
\* the graph of a free-standing graph starts 20 bytes after the tag, the
\* graphs of a bundle 12 bytes after it
CandidateRecorded(ps, tag, c) ==
  IF tag = 4
  THEN [ps EXCEPT !.other_graph_offsets = Append(@, c + 20 - ps.offset)]
  ELSE [ps EXCEPT !.color_graph_offsets = Append(@, c + 12 - ps.offset)]

\* C23 as stated: when the scanner reads a tag in {0x04, 0x05, 0x0F} followed
\* by a u32 below 0x20 it records no component and resumes scanning at that
\* second u32 (cursor = tag position + 4); when the following u32 is >= 0x20
\* it rewinds to the tag position and classifies the 4-word window that
\* starts at the tag.
C23_WindowAlwaysClassified ==
  [][AtCandidate =>
       IF ScanWord(1) < 32
       THEN scan' = Continue(scan.ps, [scan.s EXCEPT !.location = @ + 4])
       ELSE scan' = ClassifyWindow(scan.ps, ReadWords(scan.s, 4))]_vars

\* C23, amended: when the scanner reads a tag in {0x04, 0x05, 0x0F} followed
\* by a u32 below 0x20 it records no component and resumes scanning at that
\* second u32 (cursor = tag position + 4); when the following u32 is >= 0x20
\* it rewinds to the tag position and, if the 16 bytes from the tag on end
\* within the record, classifies the 4-word window that starts at the tag,
\* so that the component is recorded at the place the tag gives it; if they
\* do not, the loop ends with the cursor at the tag and nothing recorded.
C23_FalsePositiveRewind ==
  [][AtCandidate =>
       IF ScanWord(1) < 32
       THEN scan' = Continue(scan.ps, [scan.s EXCEPT !.location = @ + 4])
       ELSE IF scan.s.location + 16 > RecordEnd(scan.ps)
       THEN scan' = Break(scan.ps, scan.s)
       ELSE scan.s.location + 16 <= Len(scan.s.data) =>
              /\ scan'.ps.other_graph_offsets =
                   CandidateRecorded(scan.ps, ScanWord(0), scan.s.location)
                     .other_graph_offsets
              /\ scan'.ps.color_graph_offsets =
                   CandidateRecorded(scan.ps, ScanWord(0), scan.s.location)
                     .color_graph_offsets
              /\ scan'.s.location >= scan.s.location + 16]_vars

\* the region began with the tag 0x05 and the word 0x1F: the pass recorded
\* nothing and left the cursor at the second word
C23_Witness ==
  /\ scan.st = "scan"
  /\ NoComponents
  /\ scan.s.location = RegionStart + 4
  /\ RegionStart + 8 <= Len(input)
  /\ U32At(input, RegionStart) = 5
  /\ U32At(input, RegionStart + 4) = 31

\* the color graph that the 160 bytes at position pos of data spell
ColorGraphAt(data, pos) ==
  [x |-> UnpackWords(SubSeq(data, pos + 1, pos + 40), 10),
   y |-> [i \in 1..10 |->
            UnpackWords(SubSeq(data, pos + 29 + 12 * i, pos + 40 + 12 * i), 3)]]

\* the lists of ps have the lengths that keep them parallel
ListsParallel(ps) ==
  /\ Len(ps.scale_graphs) = Len(ps.color_graph_offsets)
  /\ Len(ps.opacity_graphs) = Len(ps.color_graph_offsets)
  /\ Len(ps.color_graphs) = Len(ps.color_graph_offsets)
  /\ Len(ps.other_graphs) = Len(ps.other_graph_offsets)

\* entry j of each bundle list of ps is what data holds for the bundle
\* recorded at color_graph_offsets[j]: the tag 12 bytes before it is 0x05 or
\* 0x0F and the word after the tag is >= 0x20, the scale is absent exactly
\* when the tag is 0x0F, and the graphs are those stored from the offset on
SameBundle(ps, data, j) ==
  /\ U32At(data, BundlePosition(ps, j) - 12) \in {5, 15}
  /\ U32At(data, BundlePosition(ps, j) - 8) >= 32
  /\ ps.scale_graphs[j] = NoGraph <=> U32At(data, BundlePosition(ps, j) - 12) = 15
  /\ ps.scale_graphs[j] # NoGraph =>
       ps.scale_graphs[j] = GraphAt(data, BundlePosition(ps, j) + 80)
  /\ ps.opacity_graphs[j] = GraphAt(data, OpacityPosition(ps, j) + 80)
  /\ ps.color_graphs[j] = ColorGraphAt(data, OpacityPosition(ps, j) + 160)

\* C24: after the decode of a particle system, and after every pass of its
\* scan loop, the scale-graph, opacity-graph, color-graph and bundle-offset
\* lists have equal length and entry i of each belongs to the same bundle,
\* the scale entry is absent exactly for the bundles matched as
\* [0x0F, >= 0x20, *, *], and the free-graph list and the free-graph offset
\* list have equal length.
C24_BundleListsParallel ==
  scan.st \in {"scan", "exit", "done"} =>
    /\ ListsParallel(scan.ps)
    /\ \A j \in 1..Len(scan.ps.color_graph_offsets) :
         SameBundle(scan.ps, scan.s.data, j)

\* a bundle without a scale graph and then a bundle with one were decoded
C24_Witness ==
  /\ scan.st = "done"
  /\ Len(scan.ps.color_graph_offsets) = 2
  /\ scan.ps.scale_graphs[1] = NoGraph
  /\ scan.ps.scale_graphs[2] # NoGraph
  /\ scan.ps.opacity_graphs[1] # scan.ps.opacity_graphs[2]

\* a pass of the scan loop begins at a tag 0x04 with a subtype >= 0x20, the
\* window [0x04, >= 0x20, *, *] ends within the record and the buffer holds
\* the word after the window and the two graphs
AtFreeGraph ==
  /\ AtCandidate
  /\ ScanWord(0) = 4
  /\ ScanWord(1) >= 32
  /\ scan.s.location + 16 <= RecordEnd(scan.ps)
  /\ scan.s.location + 180 <= Len(scan.s.data)

\* the system ps with the free-standing graph of the window at position c
\* of data recorded: the offset of position c + 20 and the graph that the
\* second of the two 80-byte copies from there on holds
FreeGraphRecorded(ps, data, c) ==
  [ps EXCEPT !.other_graph_offsets = Append(@, c + 20 - ps.offset),
             !.other_graphs = Append(@, GraphAt(data, c + 100))]

\* the buffer after the lone particle system ps was written back into s
WrittenBack(ps, s) ==
  ParticleSystem_write_to_memory_stream(ps, seek(s, ps.offset)).data

\* the system ps with the first y sample of its last free-standing graph set
\* as the editor sets it
LastGraphEdited(ps) ==
  [ps EXCEPT !.other_graphs[Len(ps.other_graphs)].y[1] = FloatTwo]

\* the graph g with its first y sample set to that value
FirstSampleSet(g) == [g EXCEPT !.y[1] = FloatTwo]

\* C25: for a lookahead window [0x04, >= 0x20, *, *] starting at position c,
\* decode records the graph at position c + 20 (stored relative to the record
\* start), reads two 80-byte graphs from there, appends exactly one graph to
\* the other-graphs list and resumes scanning at c + 188, after 8 trailing
\* bytes; encode writes the graph twice starting at the recorded position
\* (seen on the graph with one sample edited).
C25_FreeGraphLayout ==
  [][AtFreeGraph =>
       /\ scan'.st = "scan"
       /\ scan'.ps = FreeGraphRecorded(scan.ps, scan.s.data, scan.s.location)
       /\ scan'.s.location = scan.s.location + 188
       /\ BothCopiesAre(WrittenBack(LastGraphEdited(scan'.ps), scan'.s),
                        scan.s.location + 20,
                        FirstSampleSet(GraphAt(scan.s.data, scan.s.location + 100)))]_vars

\* two free-standing graphs were decoded one after the other: the second
\* window began where the scan resumed, 188 bytes after the first
C25_Witness ==
  /\ scan.st = "done"
  /\ Len(scan.ps.other_graphs) = 2
  /\ scan.ps.other_graph_offsets[2] = scan.ps.other_graph_offsets[1] + 188
  /\ scan.ps.color_graph_offsets = << >>

\* where the lookahead window of a pass that begins at a tag 0x11 starts:
\* after the tag, and after the 284 bytes skipped if the skip stays within
\* the record
WindowAfterMark ==
  scan.s.location + 4
    + (IF scan.s.location + 4 + 284 < RecordEnd(scan.ps) THEN 284 ELSE 0)

\* a pass of the scan loop begins at a tag 0x11 and its window matches
\* [*, 0x05, >= 0x20, *]; the window ends within the record and the buffer
\* holds the 480 bytes of the bundle's graphs after it
AtSecondPattern ==
  /\ scan.st = "scan"
  /\ scan.s.location < RecordEnd(scan.ps)
  /\ scan.s.location + 4 <= Len(scan.s.data)
  /\ ScanWord(0) = 17
  /\ WindowAfterMark + 16 <= RecordEnd(scan.ps)
  /\ WindowAfterMark + 16 + 480 <= Len(scan.s.data)
  /\ U32At(scan.s.data, WindowAfterMark + 4) = 5
  /\ U32At(scan.s.data, WindowAfterMark + 8) >= 32

\* a pass of the scan loop begins at a tag 0x05 with a subtype >= 0x20: its
\* window matches [0x05, >= 0x20, *, *]; the window ends within the record
\* and the buffer holds the 480 bytes of the bundle's graphs
AtFirstPattern ==
  /\ AtCandidate
  /\ ScanWord(0) = 5
  /\ ScanWord(1) >= 32
  /\ scan.s.location + 16 <= RecordEnd(scan.ps)
  /\ scan.s.location + 12 + 480 <= Len(scan.s.data)

\* the bundle lists of ps with the bundle whose graphs start at position pos
\* of data appended
BundleRecorded(ps, data, pos) ==
  [ps EXCEPT !.color_graph_offsets = Append(@, pos - ps.offset),
             !.scale_graphs = Append(@, GraphAt(data, pos + 80)),
             !.opacity_graphs = Append(@, GraphAt(data, pos + 240)),
             !.color_graphs = Append(@, ColorGraphAt(data, pos + 320))]

\* C26 as stated: for a color-graph bundle matched by the second window
\* pattern [*, 0x05, >= 0x20, *] decode does not skip 16 trailing bytes after
\* the ColorGraph: the scan resumes where the ColorGraph ends.
C26_NoTrailAfterSecondPattern ==
  [][AtSecondPattern =>
       scan'.s.location = WindowAfterMark + 16 + 480]_vars

\* C26, amended: for a color-graph bundle matched by the second window
\* pattern [*, 0x05, >= 0x20, *] decode skips 16 trailing bytes after the
\* ColorGraph, as it does for the first pattern [0x05, >= 0x20, *, *]: the
\* bundle is recorded where the window ends (second pattern) or 4 bytes
\* before (first pattern), and the scan resumes 16 bytes after the end of
\* its ColorGraph.
C26_TrailAfterBothPatterns ==
  [][/\ AtSecondPattern =>
          /\ scan'.st = "scan"
          /\ scan'.ps = BundleRecorded(scan.ps, scan.s.data, WindowAfterMark + 16)
          /\ scan'.s.location = WindowAfterMark + 16 + 480 + 16
     /\ AtFirstPattern =>
          /\ scan'.st = "scan"
          /\ scan'.ps = BundleRecorded(scan.ps, scan.s.data, scan.s.location + 12)
          /\ scan'.s.location = scan.s.location + 12 + 480 + 16]_vars

\* a bundle matched by the second pattern after a 0x11 skip was decoded, and
\* the scan goes on 16 bytes after the end of its color graph
C26_Witness ==
  /\ scan.st = "scan"
  /\ Len(scan.ps.color_graph_offsets) = 1
  /\ U32At(scan.s.data, BundlePosition(scan.ps, 1) - 304) = 17
  /\ U32At(scan.s.data, BundlePosition(scan.ps, 1) - 12) = 5
  /\ scan.s.location = BundlePosition(scan.ps, 1) + 480 + 16
  /\ scan.s.location < RecordEnd(scan.ps)

\* a pass of the scan loop begins at a tag 0x11
AtMark ==
  /\ scan.st = "scan"
  /\ scan.s.location < RecordEnd(scan.ps)
  /\ scan.s.location + 4 <= Len(scan.s.data)
  /\ ScanWord(0) = 17

\* the offsets that list new holds beyond those of list old
NewOffsets(old, new) == { new[j] : j \in (Len(old) + 1)..Len(new) }

\* C27 as stated: on tag 0x11 the scanner skips 284 bytes only if the skip
\* keeps the cursor inside the record and otherwise skips nothing, and no
\* graph component is recorded as a result of handling a 0x11 tag.
C27_MarkRecordsNothing ==
  [][AtMark =>
       /\ scan'.s.location >= WindowAfterMark
       /\ scan'.ps = scan.ps]_vars

\* C27, amended: on tag 0x11 the scanner skips 284 bytes only if the skip
\* keeps the cursor inside the record and otherwise skips nothing, so the
\* skip itself never moves the cursor to or past offset + size; the skipped
\* bytes are opaque: the pass goes on to the lookahead at the cursor, where a
\* window that does not end within the record ends the loop and a window that
\* does is classified, so a component the pass records starts at or after
\* that window.
C27_MarkSkipBounded ==
  [][AtMark =>
       /\ WindowAfterMark <= RecordEnd(scan.ps)
       /\ WindowAfterMark > scan.s.location + 4 => WindowAfterMark < RecordEnd(scan.ps)
       /\ IF WindowAfterMark + 16 > RecordEnd(scan.ps)
          THEN scan' = Break(scan.ps, [scan.s EXCEPT !.location = WindowAfterMark])
          ELSE WindowAfterMark + 16 <= Len(scan.s.data) =>
                 /\ scan'.s.location >= WindowAfterMark + 16
                 /\ \A o \in NewOffsets(scan.ps.color_graph_offsets,
                                        scan'.ps.color_graph_offsets) :
                      o + scan.ps.offset >= WindowAfterMark + 12
                 /\ \A o \in NewOffsets(scan.ps.other_graph_offsets,
                                        scan'.ps.other_graph_offsets) :
                      o + scan.ps.offset >= WindowAfterMark + 20
                 /\ (U32At(scan.s.data, WindowAfterMark) \notin {4, 5, 11, 15}
                       /\ U32At(scan.s.data, WindowAfterMark + 4) # 5)
                      => scan' = Continue(scan.ps,
                                   [scan.s EXCEPT !.location = WindowAfterMark + 16])]_vars

\* the region began with a tag 0x11 in a record long enough for the skip:
\* 284 bytes were skipped, the window after them matched nothing and the scan
\* goes on after the window with nothing recorded
C27_Witness ==
  /\ scan.st = "scan"
  /\ NoComponents
  /\ RegionStart + 4 <= Len(input)
  /\ U32At(input, RegionStart) = 17
  /\ scan.s.location = RegionStart + 4 + 284 + 16
  /\ scan.s.location < RegionEnd

\* the positions, from the start of a record, of the 4 pad bytes that follow
\* each of the three rotation rows: the rotation block starts 120 bytes into
\* the header and a row with its pad takes 16 bytes
RotationPads == { 120 + 16 * row + 12 + k : row \in 0..2, k \in 0..3 }

\* C28: the 4 pad bytes that follow each of the three rotation rows of a
\* particle-system header have, after decode and encode with no mutation,
\* the values they have in the input.
C28_RotationPadsPreserved ==
  (result = "returned" /\ edit = NoEdit /\ encodes = 1) =>
    \A i \in 1..Len(effect.particle_systems) :
      \A p \in RotationPads :
        stream.data[effect.particle_systems[i].offset + p + 1]
          = input[effect.particle_systems[i].offset - Inserted + p + 1]

\* C29: if decode stopped because the version tag was not recognized, a
\* later encode of that effect into the same stream (a save of the loaded
\* file) leaves the buffer unchanged in length and content.
C29_EncodeAfterRejectedDecode ==
  (result = "returned" /\ VersionTag(input) \notin VALID_PARTICLE_EFFECT_VERSIONS
     /\ encodes >= 1)
    => stream.data = input

\* C30: after any sequence of seek (to targets that are not negative),
\* advance, read and write calls on a MemoryStream the position is at most
\* the length of the buffer, and no call makes the buffer shorter.
C30_CursorInsideBuffer ==
  /\ stream.location <= Len(stream.data)
  /\ Len(stream.data) >= Len(op.was.data)
  /\ Len(stream.data) >= Len(input)

\* an advance from the end of a 1-byte buffer by 2: the buffer was grown to
\* the new position
C30_Witness ==
  /\ op.name = "advance"
  /\ op.arg = 2
  /\ op.was.location = 1
  /\ Len(op.was.data) = 1
  /\ stream.location = 3
  /\ Len(stream.data) = 3

====
